---- MODULE Spec2Model ----
(***************************************************************************)
(* Model of the mod file checker of src/orig.js (class modFileChecker):    *)
(* the constructor, the getInfo pipeline with its stages, and the report   *)
(* assembled by the storable getter.                                       *)
(*                                                                         *)
(* JavaScript strings that the code inspects (paths, entry names) are      *)
(* sequences of one-character strings, so that endsWith, includes,         *)
(* path.extname and the regular expressions are computed, not assumed.     *)
(* A value that may be null/false/undefined is a sequence of length 0 or 1 *)
(* (<<>> is the absent value, <<v>> the present one).                      *)
(***************************************************************************)
EXTENDS Integers, Sequences, FiniteSets, TLC

(***************************************************************************)
(* Bounds of the model (not program constants).                            *)
(***************************************************************************)
\* how many entries of Catalogue the listing may hold after its png run
MaxHead == 1
\* the listing may start with a run of distinct png files whose length is 0
\* or lies between (png quota - 1) and (png quota - 1 + MaxOver)
MaxOver == 1

(***************************************************************************)
(* Characters and strings.                                                 *)
(***************************************************************************)
UpperChars == <<"A","B","C","D","E","F","G","H","I","J","K","L","M",
                "N","O","P","Q","R","S","T","U","V","W","X","Y","Z">>
LowerChars == <<"a","b","c","d","e","f","g","h","i","j","k","l","m",
                "n","o","p","q","r","s","t","u","v","w","x","y","z">>
DigitChars == <<"0","1","2","3","4","5","6","7","8","9">>

Range(s) == { s[i] : i \in 1..Len(s) }

IsDigit(c)  == c \in Range(DigitChars)
IsLetter(c) == c \in Range(UpperChars) \cup Range(LowerChars)
\* the regular expression class \w
IsWord(c)   == IsLetter(c) \/ IsDigit(c) \/ c = "_"

\* one character of String.prototype.toLowerCase (used by the /i flag)
ToLowerChar(c) ==
    IF c \in Range(UpperChars)
    THEN LowerChars[CHOOSE i \in 1..26 : UpperChars[i] = c]
    ELSE c

\* String.prototype.endsWith
EndsWith(s, suf) ==
    /\ Len(suf) <= Len(s)
    /\ SubSeq(s, Len(s) - Len(suf) + 1, Len(s)) = suf

\* String.prototype.startsWith
StartsWith(s, pre) ==
    /\ Len(pre) <= Len(s)
    /\ SubSeq(s, 1, Len(pre)) = pre

\* String.prototype.includes for a one-character needle
IncludesChar(s, c) == \E i \in 1..Len(s) : s[i] = c

\* String.prototype.match for a pattern that is a literal text: the text
\* occurs somewhere in s
Contains(s, sub) ==
    \E i \in 1..(Len(s) - Len(sub) + 1) : SubSeq(s, i, i + Len(sub) - 1) = sub

\* String.prototype.substring(1)
Substring1(s) == IF Len(s) <= 1 THEN <<>> ELSE SubSeq(s, 2, Len(s))

\* String.prototype.slice(0, -4)
SliceOff4(s) == IF Len(s) <= 4 THEN <<>> ELSE SubSeq(s, 1, Len(s) - 4)

\* Array.prototype.includes on a sequence
Includes(list, x) == \E i \in 1..Len(list) : list[i] = x

\* index of the last occurrence of c in s at or before place i, 0 when there
\* is none
RECURSIVE LastIndexFrom(_, _, _)
LastIndexFrom(s, c, i) ==
    IF i = 0 THEN 0
    ELSE IF s[i] = c THEN i
    ELSE LastIndexFrom(s, c, i - 1)

\* index of the last occurrence of c in s, 0 when there is none
LastIndexOf(s, c) == LastIndexFrom(s, c, Len(s))

\* a path without the separators it ends with
RECURSIVE StripSeparators(_)
StripSeparators(p) ==
    IF p # <<>> /\ p[Len(p)] = "/" THEN StripSeparators(SubSeq(p, 1, Len(p) - 1))
    ELSE p

\* path.basename: the separators at the end of the path are dropped, the
\* base name is what follows the last separator left
BaseName(p) ==
    LET q == StripSeparators(p)
        k == LastIndexOf(q, "/")
    IN  IF k = 0 THEN q ELSE SubSeq(q, k + 1, Len(q))

\* path.extname: from the last dot of the base name to its end; empty when
\* there is no dot or when the only dot is the first character of the name
ExtName(p) ==
    LET b == BaseName(p)
        k == LastIndexOf(b, ".")
    IN  IF k <= 1 \/ b = <<".", ".">> THEN <<>> ELSE SubSeq(b, k, Len(b))

\* path.parse(p).name: the base name without its extension. The extension
\* is the one path.extname gives, but the scan of an absolute path stops
\* before the root separator, so that the name ".." right under the root is
\* not recognised and its last dot is its extension
ParseName(p) ==
    LET b   == BaseName(p)
        ext == IF StripSeparators(p) = <<"/", ".", ".">> THEN <<".">>
               ELSE ExtName(p)
    IN  SubSeq(b, 1, Len(b) - Len(ext))

(***************************************************************************)
(* JavaScript objects with boolean values: the keys in insertion order.    *)
(***************************************************************************)
ObjKeys(o)   == [i \in 1..Len(o) |-> o[i].k]
ObjHas(o, k) == \E i \in 1..Len(o) : o[i].k = k
\* o[k]; a missing key reads as undefined, which the code only tests for truth
ObjGet(o, k) == IF ObjHas(o, k) THEN o[CHOOSE i \in 1..Len(o) : o[i].k = k].v ELSE FALSE
\* o[k] = v: an existing key keeps its place, a new key is appended
ObjSet(o, k, v) ==
    IF ObjHas(o, k)
    THEN [i \in 1..Len(o) |-> IF o[i].k = k THEN [k |-> k, v |-> v] ELSE o[i]]
    ELSE Append(o, [k |-> k, v |-> v])
\* {...a, ...b}
Spread(a, b) ==
    [i \in 1..Len(a) |->
        IF ObjHas(b, a[i].k) THEN [k |-> a[i].k, v |-> ObjGet(b, a[i].k)] ELSE a[i]]
    \o SelectSeq(b, LAMBDA e : ~ObjHas(a, e.k))
\* Object.entries(o).some((x) => x[1] === true)
SomeTrue(o) == \E i \in 1..Len(o) : o[i].v = TRUE
\* an object literal whose keys are all false
AllFalse(names) == [i \in 1..Len(names) |-> [k |-> names[i], v |-> FALSE]]

(***************************************************************************)
(* Policy tables and flag registries (fields of the class).                *)
(***************************************************************************)
maxFilesType_init == [grle |-> 10, pdf |-> 1, png |-> 128, txt |-> 2]

fileSizeMap == [cache |-> 10485760, dds |-> 12582912, gdm |-> 18874368,
                shapes |-> 268435456, xml |-> 262144]

BrokenNames ==
    << "FILE_ERROR_GARBAGE_FILE", "FILE_ERROR_LIKELY_COPY",
       "FILE_ERROR_LIKELY_ZIP_PACK", "FILE_ERROR_NAME_INVALID",
       "FILE_ERROR_NAME_STARTS_DIGIT", "FILE_ERROR_UNREADABLE_ZIP",
       "FILE_ERROR_UNSUPPORTED_ARCHIVE", "MOD_ERROR_NO_MOD_VERSION",
       "NOT_MOD_MODDESC_MISSING", "NOT_MOD_MODDESC_PARSE_ERROR",
       "NOT_MOD_MODDESC_VERSION_OLD_OR_MISSING" >>

InfoNames ==
    << "INFO_NO_MULTIPLAYER_UNZIPPED", "FILE_IS_A_SAVEGAME", "MALICIOUS_CODE" >>

ProblemNames ==
    << "INFO_MIGHT_BE_PIRACY", "MOD_ERROR_MODDESC_DAMAGED_RECOVERABLE",
       "MOD_ERROR_NO_MOD_ICON", "PERF_DDS_TOO_BIG", "PERF_GDM_TOO_BIG",
       "PERF_GRLE_TOO_MANY", "PERF_HAS_EXTRA", "PERF_I3D_TOO_BIG",
       "PERF_L10N_NOT_SET", "PERF_PDF_TOO_MANY", "PERF_PNG_TOO_MANY",
       "PERF_SHAPES_TOO_BIG", "PERF_SPACE_IN_FILE", "PERF_TXT_TOO_MANY",
       "PERF_XML_TOO_BIG", "PREF_PNG_TEXTURE" >>

modDesc_init ==
    [ actions        |-> {},
      author         |-> "--",
      binds          |-> {},
      cropInfo       |-> <<>>,
      cropWeather    |-> <<>>,
      depend         |-> <<>>,
      descVersion    |-> 0,
      iconFileName   |-> <<>>,
      iconImageCache |-> <<>>,
      mapConfigFile  |-> <<>>,
      mapIsSouth     |-> FALSE,
      multiPlayer    |-> FALSE,
      scriptFiles    |-> 0,
      storeItems     |-> 0,
      version        |-> "--" ]

fileDetail_init ==
    [ copyName    |-> <<>>,
      extraFiles  |-> <<>>,
      fullPath    |-> <<>>,
      i3dFiles    |-> <<>>,
      imageDDS    |-> <<>>,
      imageNonDDS |-> <<>>,
      isFolder    |-> FALSE,
      isSaveGame  |-> FALSE,
      pngTexture  |-> <<>>,
      shortName   |-> <<>>,
      spaceFiles  |-> <<>>,
      tooBigFiles |-> <<>> ]

(***************************************************************************)
(* String literals of the code.                                            *)
(***************************************************************************)
S_zip       == <<".","z","i","p">>
S_rar       == <<".","r","a","r">>
S_7z        == <<".","7","z">>
S_unzip     == <<"u","n","z","i","p">>
S_dds       == <<"d","d","s">>
S_dotdds    == <<".","d","d","s">>
S_png       == <<"p","n","g">>
S_weightpng == <<"_","w","e","i","g","h","t",".","p","n","g">>
S_i3d       == <<"i","3","d">>
S_lua       == <<"l","u","a">>
S_cache     == <<"c","a","c","h","e">>
S_gdm       == <<"g","d","m">>
S_xml       == <<"x","m","l">>
S_shapes    == <<"s","h","a","p","e","s">>
S_dotgrle   == <<".","g","r","l","e">>
S_dotpdf    == <<".","p","d","f">>
S_dottxt    == <<".","t","x","t">>
S_grle      == <<"g","r","l","e">>
S_pdf       == <<"p","d","f">>
S_txt       == <<"t","x","t">>
S_gls       == <<"g","l","s">>
S_anim      == <<"a","n","i","m">>
S_ogg       == <<"o","g","g">>
S_l64       == <<"l","6","4">>
S_dat       == <<"d","a","t">>
S_deleteFolder == <<".","d","e","l","e","t","e","F","o","l","d","e","r">>
S_deleteFile   == <<".","d","e","l","e","t","e","F","i","l","e">>

(***************************************************************************)
(* Name validation.                                                        *)
(***************************************************************************)
\* shortName.match(/unzip/i)
MatchUnzip(s) ==
    \E i \in 1..Len(s) :
        /\ i + 4 <= Len(s)
        /\ [j \in 1..5 |-> ToLowerChar(s[i + j - 1])] = S_unzip

\* shortName.match(/^\d/)
MatchStartsDigit(s) == Len(s) >= 1 /\ IsDigit(s[1])

\* shortName.match(/^[A-Z_a-z]\w+$/)
MatchIdentifier(s) ==
    /\ Len(s) >= 2
    /\ IsLetter(s[1]) \/ s[1] = "_"
    /\ \A i \in 2..Len(s) : IsWord(s[i])

\* length of the longest prefix of word characters
WordPrefixLen(s) ==
    IF \A i \in 1..Len(s) : IsWord(s[i])
    THEN Len(s)
    ELSE (CHOOSE i \in 1..Len(s) : ~IsWord(s[i]) /\ \A j \in 1..(i-1) : IsWord(s[j])) - 1

\* the characters the dot of a regular expression does not match: line
\* feed, carriage return, U+2028 and U+2029 (the last two by their names)
LineTerminators == { "\n", "\r", "U+2028", "U+2029" }

\* .+$ matches s from place i on: one character or more up to the end of
\* the input, none of them a line terminator
MatchDotsToEnd(s, i) ==
    /\ i <= Len(s)
    /\ \A j \in i..Len(s) : s[j] \notin LineTerminators

\* shortName.match(/^([A-Za-z]\w+)(?: - .+$| \(.+$)/): the captured group in
\* a sequence of length one, or <<>> when the match is null
MatchCopyName(s) ==
    LET n    == WordPrefixLen(s)
        rest == SubSeq(s, n + 1, Len(s))
    IN  IF /\ n >= 2
           /\ IsLetter(s[1])
           /\ \/ StartsWith(rest, <<" ", "-", " ">>) /\ MatchDotsToEnd(rest, 4)
              \/ StartsWith(rest, <<" ", "(">>) /\ MatchDotsToEnd(rest, 3)
        THEN << SubSeq(s, 1, n) >>
        ELSE <<>>

\* a name validator whose extension check raises its flag and goes on to
\* the checks of the short name
doStep_validFileName_noReturn(fullModPath, shortName, isFolder) ==
    LET ext     == IF ~isFolder /\ ~EndsWith(fullModPath, S_zip)
                   THEN IF EndsWith(fullModPath, S_rar) \/ EndsWith(fullModPath, S_7z)
                        THEN {"FILE_ERROR_UNSUPPORTED_ARCHIVE"}
                        ELSE {"FILE_ERROR_GARBAGE_FILE"}
                   ELSE {}
        zipPack == IF MatchUnzip(shortName)
                   THEN {"FILE_ERROR_LIKELY_ZIP_PACK"} ELSE {}
        copyName == MatchCopyName(shortName)
    IN  IF MatchStartsDigit(shortName)
        THEN [ valid |-> FALSE,
               raise |-> ext \cup zipPack \cup {"FILE_ERROR_NAME_STARTS_DIGIT"},
               copyName |-> <<>> ]
        ELSE IF ~MatchIdentifier(shortName)
        THEN [ valid |-> FALSE,
               raise |-> ext \cup zipPack \cup
                         (IF copyName # <<>> THEN {"FILE_ERROR_LIKELY_COPY"} ELSE {}),
               copyName |-> copyName ]
        ELSE [ valid |-> ext = {}, raise |-> ext \cup zipPack, copyName |-> <<>> ]

\* #doStep_validFileName: the returned value, the broken flags it raises and
\* the copy name it records
doStep_validFileName(fullModPath, shortName, isFolder) ==
    IF ~isFolder /\ ~EndsWith(fullModPath, S_zip)
    THEN [ valid |-> FALSE,
           raise |-> IF EndsWith(fullModPath, S_rar) \/ EndsWith(fullModPath, S_7z)
                     THEN {"FILE_ERROR_UNSUPPORTED_ARCHIVE"}
                     ELSE {"FILE_ERROR_GARBAGE_FILE"},
           copyName |-> <<>> ]
    ELSE LET zipPack == IF MatchUnzip(shortName)
                        THEN {"FILE_ERROR_LIKELY_ZIP_PACK"} ELSE {}
         IN  IF MatchStartsDigit(shortName)
             THEN [ valid |-> FALSE,
                    raise |-> zipPack \cup {"FILE_ERROR_NAME_STARTS_DIGIT"},
                    copyName |-> <<>> ]
             ELSE IF ~MatchIdentifier(shortName)
             THEN LET copyName == MatchCopyName(shortName)
                  IN  [ valid |-> FALSE,
                        raise |-> zipPack \cup
                                  (IF copyName # <<>>
                                   THEN {"FILE_ERROR_LIKELY_COPY"} ELSE {}),
                        copyName |-> copyName ]
             ELSE [ valid |-> TRUE, raise |-> zipPack, copyName |-> <<>> ]

(***************************************************************************)
(* The environment: constructor arguments, the artifact and the answers of *)
(* the collaborators (file access, XML parser, map reader, icon decoder).  *)
(***************************************************************************)
\* constructor arguments together with requiredItems.currentLocale
Inputs ==
    { [fullPath |-> <<"m","o","d","s","/","F","S","2","2","_","M","o","d",".","z","i","p">>,   isFolder |-> FALSE, md5Pre |-> <<"9e107d9d">>, locale |-> "fr"],
      [fullPath |-> <<"m","o","d","s","/","F","S","2","2","_","M","o","d","/">>,   isFolder |-> TRUE,  md5Pre |-> <<>>,           locale |-> "en"],
      [fullPath |-> <<"F","S","2","2","_","A","u","t","o","D","r","i","v","e",".","z","i","p">>,  isFolder |-> FALSE, md5Pre |-> <<>>,           locale |-> "de"],
      [fullPath |-> <<"F","S","2","2","_","U","n","Z","i","p","M","e",".","z","i","p">>,    isFolder |-> FALSE, md5Pre |-> <<"9e107d9d">>, locale |-> "en"],
      [fullPath |-> <<"F","S","2","2","_","M","o","d",".","r","a","r">>,        isFolder |-> FALSE, md5Pre |-> <<>>,           locale |-> "en"],
      [fullPath |-> <<"2","u","n","z","i","p",".","7","z">>,  isFolder |-> FALSE, md5Pre |-> <<>>,           locale |-> "en"],
      [fullPath |-> <<"F","S","2","2","_","M","o","d"," ","-"," ","C","o","p","y",".","t","x","t">>,        isFolder |-> FALSE, md5Pre |-> <<"9e107d9d">>, locale |-> "en"],
      [fullPath |-> <<"F","S","2","2","_","M","o","d",".","Z","I","P">>,        isFolder |-> FALSE, md5Pre |-> <<>>,           locale |-> "en"],
      [fullPath |-> <<"m","o","d","s","/","F","S","2","2","_","M","o","d">>,       isFolder |-> FALSE, md5Pre |-> <<>>,           locale |-> "en"],
      [fullPath |-> <<"1","s","t","M","o","d",".","z","i","p">>,          isFolder |-> FALSE, md5Pre |-> <<"9e107d9d">>, locale |-> "en"],
      [fullPath |-> <<"7","u","n","z","i","p","p","e","d",".","z","i","p">>,       isFolder |-> FALSE, md5Pre |-> <<>>,           locale |-> "en"],
      [fullPath |-> <<"F","S","2","2","_","M","o","d"," ","-"," ","C","o","p","y",".","z","i","p">>, isFolder |-> FALSE, md5Pre |-> <<"9e107d9d">>, locale |-> "en"],
      [fullPath |-> <<"m","o","d","s","/","F","S","2","2","_","M","o","d"," ","(","2",")">>,   isFolder |-> TRUE,  md5Pre |-> <<>>,           locale |-> "en"],
      [fullPath |-> <<"F","S","2","2"," ","M","o","d",".","z","i","p">>,        isFolder |-> FALSE, md5Pre |-> <<>>,           locale |-> "en"],
      [fullPath |-> <<"M",".","z","i","p">>,               isFolder |-> FALSE, md5Pre |-> <<>>,           locale |-> "en"],
      [fullPath |-> <<"F","S","2","2","_","M","o","d"," ","-"," ","x","\n","y",".","z","i","p">>, isFolder |-> FALSE, md5Pre |-> <<>>,   locale |-> "en"],
      [fullPath |-> <<"m","o","d","s","/","2","n","d","M","o","d",".","r","a","r">>,     isFolder |-> TRUE,  md5Pre |-> <<"9e107d9d">>, locale |-> "fr"] }

\* what the file access layer finds: how open() ends (the handle cannot be
\* constructed, open throws, returns false, returns true) and, for an
\* artifact that opens, whether the two marker files exist
Artifacts ==
    { [opens |-> o, hasSaveGame |-> FALSE, hasModDesc |-> FALSE] :
        o \in {"noHandle", "throw", "fail"} }
    \cup
    { [opens |-> "ok", hasSaveGame |-> s, hasModDesc |-> d] :
        s \in BOOLEAN, d \in BOOLEAN }

\* the short names of the malware allow-list (requiredItems, not in src/)
malwareFalse == { <<"F","S","2","2","_","A","u","t","o","D","r","i","v","e">> }

\* an entry of the listing with what fileInfo tells of it
Entry(name, isDir, size) == [name |-> name, isFolder |-> isDir, size |-> size]

\* the entries the listing may yield after the run of png files, in the
\* order in which it yields those it holds
Catalogue ==
    << Entry(<<"i","c","o","n",".","d","d","s">>,        FALSE, fileSizeMap.dds),
       Entry(<<"b","i","g",".","d","d","s">>,         FALSE, fileSizeMap.dds + 1),
       Entry(<<"m","a","p","_","w","e","i","g","h","t",".","p","n","g">>,  FALSE, 2048),
       Entry(<<"L","O","G","O",".","P","N","G">>,        FALSE, 2048),
       Entry(<<"m","o","d","e","l",".","i","3","d">>,       FALSE, 2048),
       Entry(<<"m","o","d","e","l",".","i","3","d",".","c","a","c","h","e">>, FALSE, fileSizeMap.cache + 1),
       Entry(<<"h","u","g","e",".","x","m","l">>,        FALSE, fileSizeMap.xml + 1),
       Entry(<<"m","a","i","n",".","l","u","a">>,        FALSE, 2048),
       Entry(<<"f","i","e","l","d",".","g","r","l","e">>,      FALSE, 2048),
       Entry(<<"g","u","i","d","e",".","p","d","f">>,       FALSE, 2048),
       Entry(<<"n","o","t","e","s",".","t","x","t">>,       FALSE, 2048),
       Entry(<<"c","r","a","c","k",".","l","6","4">>,       FALSE, 2048),
       Entry(<<"m","y"," ","t","e","x","t","u","r","e","s">>,     TRUE,  0) >>

\* decimal digits of a natural number
RECURSIVE Digits(_)
Digits(n) == IF n < 10 THEN << DigitChars[n + 1] >>
             ELSE Append(Digits(n \div 10), DigitChars[(n % 10) + 1])

\* the i-th file of the leading run of png files
RunEntry(i) == Entry(<<"t">> \o Digits(i) \o <<".","p","n","g">>, FALSE, 2048)

\* lengths at which the leading run of png files may end
RunLengths == {0} \cup { maxFilesType_init.png - 1 + d : d \in 0..MaxOver }
MaxRun == maxFilesType_init.png - 1 + MaxOver

\* readText of a lua file: a text (its characters) or an exception
LuaReads ==
    { [kind |-> "text",  text |-> <<"p","r","i","n","t","(","d","e","l","e","t","e","F","o","l","d","e","r",")">>],
      [kind |-> "text",  text |-> <<"f","s",".","d","e","l","e","t","e","F","o","l","d","e","r","s","(",")">>],
      [kind |-> "text",  text |-> <<"f","s",".","d","e","l","e","t","e","F","i","l","e","I","f","O","l","d","(",")">>],
      [kind |-> "throw", text |-> <<>>] }

\* a node of the descriptor tree holding localized text: absent, a plain
\* string, or a map from language to text (a set of <<language, text>>)
L10nAbsent      == [kind |-> "absent", map |-> {}]
L10nString      == [kind |-> "string", map |-> {}]
L10nMap(pairs)  == [kind |-> "map", map |-> pairs]

\* the tree readXML returns for modDesc.xml, by the fields the code reads
NoTree ==
    [ descversion |-> <<>>, version |-> <<>>, author |-> <<>>,
      multiplayer |-> <<>>, storeitems |-> <<>>, configfilename |-> <<>>,
      dependency |-> <<>>, productid |-> FALSE,
      iconfilename |-> [kind |-> "absent", name |-> <<>>],
      title |-> L10nAbsent, description |-> L10nAbsent,
      action |-> <<>>, actionbinding |-> <<>> ]

DescTrees ==
    { NoTree,
      [ NoTree EXCEPT
          !.descversion = <<72>>, !.version = <<"1.0.0.0">>, !.author = <<"me">>,
          !.multiplayer = <<TRUE>>, !.storeitems = <<2>>,
          !.dependency = << <<"FS22_Other">> >>,
          !.iconfilename = [kind |-> "string", name |-> <<"i","c","o","n",".","p","n","g">>],
          !.title = L10nMap({<<"en", "Title">>, <<"de", "Titel">>}),
          !.description = L10nMap({<<"en", "Text">>}),
          !.action = << <<[NAME |-> "A1", CATEGORY |-> "VEHICLE"],
                          [NAME |-> "__proto__", CATEGORY |-> "X"],
                          [NAME |-> "A2", CATEGORY |-> ""]>> >>,
          !.actionbinding = << <<[ACTION |-> "A1",
                                  binding |-> <<[DEVICE |-> "KB_MOUSE_DEFAULT", INPUT |-> "KEY_a"],
                                                [DEVICE |-> "GAMEPAD", INPUT |-> "BUTTON_1"]>>],
                                 [ACTION |-> "toString",
                                  binding |-> <<[DEVICE |-> "GAMEPAD", INPUT |-> "BUTTON_2"]>>],
                                 [ACTION |-> "A2",
                                  binding |-> <<[DEVICE |-> "KB_MOUSE_DEFAULT", INPUT |-> "KEY_b"]>>],
                                 [ACTION |-> "constructor",
                                  binding |-> <<[DEVICE |-> "KB_MOUSE_DEFAULT", INPUT |-> "KEY_c"]>>],
                                 [ACTION |-> "A3",
                                  binding |-> <<[DEVICE |-> "KB_MOUSE_DEFAULT", INPUT |-> "KEY_d"]>>]>> >> ],
      [ NoTree EXCEPT
          !.descversion = <<72>>, !.version = <<"0.0.0.0">>,
          !.multiplayer = <<FALSE>>, !.productid = TRUE,
          !.configfilename = << <<"m","a","p","s","/","m","a","p",".","x","m","l">> >>,
          !.iconfilename = [kind |-> "array", name |-> <<"i","c","o","n",".","d","d","s">>],
          !.title = L10nMap({<<"fr", "Titre">>}),
          !.description = L10nMap({<<"de", "">>}) ],
      [ NoTree EXCEPT
          !.version = <<"2.1.0.0">>,
          !.iconfilename = [kind |-> "string", name |-> <<"s","t","o","r","e",".","d","d","s">>],
          !.title = L10nString,
          !.description = L10nMap({<<"fr", "Texte">>, <<"es", "Texto">>}) ] }

\* readXML('modDesc.xml'): an exception, false (parse error), null (not
\* found) or a tree
XmlReads ==
    { [kind |-> k, tree |-> NoTree] : k \in {"throw", "false", "null"} }
    \cup { [kind |-> "tree", tree |-> t] : t \in DescTrees }

\* the map stage as a whole: the config file does not exist, a collaborator
\* throws, or the map-data reader delivers its three values
MapReads ==
    { [kind |-> "missing", weather |-> <<>>, crops |-> <<>>, isSouth |-> FALSE],
      [kind |-> "throw",   weather |-> <<>>, crops |-> <<>>, isSouth |-> FALSE],
      [kind |-> "ok", weather |-> <<"weather">>, crops |-> <<"crops">>, isSouth |-> TRUE] }

\* the icon stage: exists() is false, readBin/parseDDS throws, or an image
IconReads ==
    { [kind |-> "missing", image |-> <<>>],
      [kind |-> "throw",   image |-> <<>>],
      [kind |-> "ok",      image |-> <<"image/webp">>] }

(***************************************************************************)
(* State.                                                                  *)
(***************************************************************************)
VARIABLES
    pc,            \* the state of the pipeline driver (getInfo)
    input,         \* the constructor arguments and the locale
    artifact,      \* what the file access layer finds
    fileDetail, modDesc, modDescParsed, md5Sum, locale,
    flag_broken, flag_problem, flag_info,
    maxFilesType,
    l10n,          \* #l10n, <<>> while null
    modHandle,     \* the handle #modHandle was given: "null" (none), "new"
                   \* (constructed), "open", "closed"; its state stays on record
                   \* when getInfo drops the reference before it returns
    isValidMod,    \* the local constant of getInfo
    listed,        \* the entries the listing has yielded so far
    log,           \* the notices of the log collector
    stages,        \* the stages run so far, in order
    report,        \* what getInfo returned, <<>> before it returns
    run,           \* 1 for the first instance, 2 for a second one
    first,         \* what getInfo of the first instance returned, <<>> in run 1
    answers        \* the answers the collaborators gave to the first instance
                   \* and have not yet given to the second

vars == << pc, input, artifact, fileDetail, modDesc, modDescParsed, md5Sum, locale,
           flag_broken, flag_problem, flag_info, maxFilesType, l10n, modHandle,
           isValidMod, listed, log, stages, report, run, first, answers >>

\* the constructor
Init ==
    /\ input \in Inputs
    /\ artifact \in Artifacts
    /\ pc = "Start"
    /\ fileDetail = [fileDetail_init EXCEPT
                        !.fullPath  = input.fullPath,
                        !.isFolder  = input.isFolder,
                        !.shortName = ParseName(input.fullPath)]
    /\ modDesc = modDesc_init
    /\ modDescParsed = [kind |-> "false", tree |-> NoTree]
    /\ md5Sum = input.md5Pre
    /\ locale = input.locale
    /\ flag_broken = AllFalse(BrokenNames)
    /\ flag_problem = AllFalse(ProblemNames)
    /\ flag_info = ObjSet(AllFalse(InfoNames), "INFO_NO_MULTIPLAYER_UNZIPPED", input.isFolder)
    /\ maxFilesType = maxFilesType_init
    /\ l10n = <<>>
    /\ modHandle = "null"
    /\ isValidMod = FALSE
    /\ listed = <<>>
    /\ log = <<>>
    /\ stages = <<>>
    /\ report = <<>>
    /\ run = 1
    /\ first = <<>>
    /\ answers = <<>>

(***************************************************************************)
(* Flags, quotas and the file classifier.                                  *)
(***************************************************************************)
\* #util_raiseFlag_problem, #util_raiseFlag_broken, #util_raiseFlag_info
util_raiseFlag(o, flag) == ObjSet(o, flag, TRUE)

\* every flag of a set raised
RECURSIVE util_raiseFlags(_, _)
util_raiseFlags(o, flags) ==
    IF flags = {} THEN o
    ELSE LET f == CHOOSE x \in flags : TRUE
         IN  util_raiseFlags(util_raiseFlag(o, f), flags \ {f})

\* the characters of a JavaScript string as one string
RECURSIVE Join(_)
Join(s) == IF s = <<>> THEN "" ELSE s[1] \o Join(Tail(s))

ToUpperChar(c) ==
    IF c \in Range(LowerChars)
    THEN UpperChars[CHOOSE i \in 1..26 : LowerChars[i] = c]
    ELSE c

\* String.prototype.toUpperCase
ToUpperCase(s) == [i \in 1..Len(s) |-> ToUpperChar(s[i])]

\* the key of #fileSizeMap and #maxFilesType a tag names
TypeKey(tag) == Join(tag)

\* the part of the pipeline state the classifier works on
ClassifierState ==
    [ fileDetail |-> fileDetail, flag_problem |-> flag_problem, flag_info |-> flag_info,
      maxFilesType |-> maxFilesType, modDesc |-> modDesc, threw |-> FALSE ]

\* a size check that also lists a file whose size is the threshold
util_size_check_atThreshold(st, size, type, fileName, flagPart) ==
    IF size >= fileSizeMap[type]
    THEN [st EXCEPT !.fileDetail.tooBigFiles = Append(@, fileName),
                    !.flag_problem = util_raiseFlag(@, "PERF_" \o flagPart \o "_TOO_BIG")]
    ELSE st

\* #util_size_check
util_size_check(st, size, type, fileName, flagPart) ==
    IF size > fileSizeMap[type]
    THEN [st EXCEPT !.fileDetail.tooBigFiles = Append(@, fileName),
                    !.flag_problem = util_raiseFlag(@, "PERF_" \o flagPart \o "_TOO_BIG")]
    ELSE st

\* #util_tick_count; a type that is no key of the table would only create a
\* property that nothing reads
util_tick_count(st, type) ==
    IF type \in DOMAIN st.maxFilesType
    THEN [st EXCEPT !.maxFilesType[type] = @ - 1]
    ELSE st

knownGood == { <<>>, S_png, S_dds, S_i3d, S_shapes, S_lua, S_gdm, S_cache, S_xml,
               S_grle, S_pdf, S_txt, S_gls, S_anim, S_ogg }

\* #util_countUnknown: the returned value
util_countUnknown(shortSuffix) == shortSuffix \notin knownGood

\* #util_countUnknown: its effect when it returns true
util_countUnknown_effect(st, shortSuffix, fileName) ==
    LET fp1 == IF shortSuffix = S_l64 \/ shortSuffix = S_dat
               THEN util_raiseFlag(st.flag_problem, "INFO_MIGHT_BE_PIRACY")
               ELSE st.flag_problem
    IN  [st EXCEPT !.flag_problem = util_raiseFlag(fp1, "PERF_HAS_EXTRA"),
                   !.fileDetail.extraFiles = Append(@, fileName)]

\* #util_checkLUA; read is what readText returns when it is called
util_checkLUA(st, read) ==
    IF st.fileDetail.shortName \in malwareFalse THEN st
    ELSE IF read.kind = "throw" THEN [st EXCEPT !.threw = TRUE]
    ELSE IF read.kind # "text" THEN st
    ELSE IF Contains(read.text, S_deleteFolder)
         THEN [st EXCEPT !.flag_info = util_raiseFlag(@, "MALICIOUS_CODE")]
    ELSE IF Contains(read.text, S_deleteFile)
         THEN [st EXCEPT !.flag_info = util_raiseFlag(@, "MALICIOUS_CODE")]
    ELSE st

\* a png case that ticks the quota only for the files it lists as textures
countFile_png_texturesOnly(st, fileName) ==
    IF ~EndsWith(fileName, S_weightpng)
    THEN [util_tick_count(st, "png")
              EXCEPT !.fileDetail.imageNonDDS = Append(@, fileName),
                     !.fileDetail.pngTexture  = Append(@, fileName)]
    ELSE st

\* the png case of #util_countFile
countFile_png(st, fileName) ==
    LET ticked == util_tick_count(st, "png")
    IN  IF ~EndsWith(fileName, S_weightpng)
        THEN [ticked EXCEPT !.fileDetail.imageNonDDS = Append(@, fileName),
                            !.fileDetail.pngTexture  = Append(@, fileName)]
        ELSE ticked

\* the labels of the last case group of the switch of #util_countFile
countFile_tickLabels == { S_dotgrle, S_dotpdf, S_dottxt }

\* #util_countFile
util_countFile(st, suffix, fileName, size, read) ==
    LET shortSuffix == Substring1(suffix)
    IN  IF util_countUnknown(shortSuffix)
        THEN util_countUnknown_effect(st, shortSuffix, fileName)
        ELSE IF shortSuffix = S_png THEN countFile_png(st, fileName)
        ELSE IF shortSuffix = S_dds
             THEN util_size_check([st EXCEPT !.fileDetail.imageDDS = Append(@, fileName)],
                                  size, "dds", fileName, "DDS")
        ELSE IF shortSuffix = S_i3d
             THEN [st EXCEPT !.fileDetail.i3dFiles = Append(@, fileName)]
        ELSE IF shortSuffix = S_lua
             THEN util_checkLUA([st EXCEPT !.modDesc.scriptFiles = @ + 1], read)
        ELSE IF shortSuffix = S_cache
             THEN util_size_check(st, size, TypeKey(shortSuffix), fileName, "I3D")
        ELSE IF shortSuffix \in {S_gdm, S_xml, S_shapes}
             THEN util_size_check(st, size, TypeKey(shortSuffix), fileName,
                                  Join(ToUpperCase(shortSuffix)))
        ELSE IF shortSuffix \in countFile_tickLabels
             THEN util_tick_count(st, TypeKey(shortSuffix))
        ELSE st

\* one iteration of the loop of #doStep_fileCounts
fileCounts_entry(st, e, read) ==
    LET st1 == IF IncludesChar(e.name, " ")
               THEN [st EXCEPT !.fileDetail.spaceFiles = Append(@, e.name),
                               !.flag_problem = util_raiseFlag(@, "PERF_SPACE_IN_FILE")]
               ELSE st
    IN  IF e.isFolder THEN st1
        ELSE util_countFile(st1, ExtName(e.name), e.name, e.size, read)

\* the assignments that end #doStep_fileCounts
fileCounts_quotaFlags(fp, q) ==
    LET a == ObjSet(fp, "PERF_GRLE_TOO_MANY", q.grle < 1)
        b == ObjSet(a,  "PERF_PNG_TOO_MANY",  q.png < 1)
        c == ObjSet(b,  "PERF_PDF_TOO_MANY",  q.pdf < 1)
    IN  ObjSet(c, "PERF_TXT_TOO_MANY", q.txt < 1)

(***************************************************************************)
(* Descriptor extraction.                                                  *)
(***************************************************************************)
\* #modDesc_default: key ?? fallback
modDesc_default(key, fallback) == IF key = <<>> THEN fallback ELSE key[1]

\* the icon file name #doStep_parseModDesc looks up in the DDS list
parseModDesc_iconFileName(tree) ==
    LET declared == IF tree.iconfilename.kind \in {"string", "array"}
                    THEN tree.iconfilename.name ELSE <<>>
    IN  IF ~EndsWith(declared, S_dotdds)
        THEN SliceOff4(declared) \o S_dotdds
        ELSE declared

\* the names every plain object inherits from Object.prototype
ObjectPrototypeNames ==
    { "__proto__", "constructor", "hasOwnProperty", "isPrototypeOf",
      "propertyIsEnumerable", "toLocaleString", "toString", "valueOf",
      "__defineGetter__", "__defineSetter__", "__lookupGetter__",
      "__lookupSetter__" }

\* the loop over modDescParsed.actions.action: name -> category || 'ALL';
\* modDesc.actions is a plain object, so assigning a string to "__proto__"
\* runs the inherited setter, which ignores it, and makes no key
RECURSIVE parseActions_actions(_, _)
parseActions_actions(list, acc) ==
    IF list = <<>> THEN acc
    ELSE LET a   == Head(list)
             cat == IF a.CATEGORY = "" THEN "ALL" ELSE a.CATEGORY
         IN  parseActions_actions(Tail(list),
                IF a.NAME = "__proto__" THEN acc
                ELSE { p \in acc : p[1] # a.NAME } \cup { <<a.NAME, cat>> })

\* the inputs of one action binding bound to the keyboard/mouse device
KbInputs(bindings) ==
    LET kb == SelectSeq(bindings, LAMBDA b : b.DEVICE = "KB_MOUSE_DEFAULT")
    IN  [i \in 1..Len(kb) |-> kb[i].INPUT]

\* the loop over modDescParsed.inputbinding.actionbinding. binds is a plain
\* object: for a name that has no key of its own in it but a value inherited
\* from Object.prototype, binds[name] ??= [] keeps that value and
\* binds[name].push(input) throws a TypeError, which ends the loop (the
\* catch of the step); what was bound before stays
RECURSIVE parseActions_binds(_, _)
parseActions_binds(list, acc) ==
    IF list = <<>> THEN acc
    ELSE LET a      == Head(list)
             new    == KbInputs(a.binding)
             own    == \E p \in acc : p[1] = a.ACTION
             old    == IF own THEN (CHOOSE p \in acc : p[1] = a.ACTION)[2]
                       ELSE <<>>
             throws == new # <<>> /\ ~own /\ a.ACTION \in ObjectPrototypeNames
         IN  IF throws THEN acc
             ELSE parseActions_binds(Tail(list),
                    IF new = <<>> THEN acc
                    ELSE { p \in acc : p[1] # a.ACTION }
                            \cup { <<a.ACTION, old \o new>> })

\* #doStep_parseActions
doStep_parseActions(md, tree) ==
    [md EXCEPT
        !.actions = IF tree.action = <<>> THEN @
                    ELSE parseActions_actions(tree.action[1], @),
        !.binds   = IF tree.actionbinding = <<>> THEN @
                    ELSE parseActions_binds(tree.actionbinding[1], @)]

\* an icon file name accepted without looking at the DDS list
parseModDesc_iconAccepted_unlisted(imageDDS, iconFileName) == TRUE

\* this.fileDetail.imageDDS.includes(iconFileName)
parseModDesc_iconAccepted(imageDDS, iconFileName) == Includes(imageDDS, iconFileName)

\* #doStep_parseModDesc from the descriptor version on, for a tree
parseModDesc_extract(md, fb, fp, imageDDS, tree) ==
    LET descVersion  == modDesc_default(tree.descversion, 0)
        version      == modDesc_default(tree.version, "0.0.0.0")
        iconFileName == parseModDesc_iconFileName(tree)
        found        == parseModDesc_iconAccepted(imageDDS, iconFileName)
        md1 == [md EXCEPT
                  !.descVersion   = descVersion,
                  !.version       = version,
                  !.author        = modDesc_default(tree.author, "--"),
                  !.multiPlayer   = modDesc_default(tree.multiplayer, FALSE),
                  !.storeItems    = modDesc_default(tree.storeitems, 0),
                  !.mapConfigFile = tree.configfilename,
                  !.depend        = modDesc_default(tree.dependency, <<>>),
                  !.iconFileName  = IF found THEN <<iconFileName>> ELSE @]
        fb1 == ObjSet(fb,  "NOT_MOD_MODDESC_VERSION_OLD_OR_MISSING", descVersion = 0)
        fb2 == ObjSet(fb1, "MOD_ERROR_NO_MOD_VERSION", version = "0.0.0.0")
        fp1 == ObjSet(fp,  "INFO_MIGHT_BE_PIRACY", tree.productid)
        fp2 == IF found THEN fp1 ELSE util_raiseFlag(fp1, "MOD_ERROR_NO_MOD_ICON")
    IN  [modDesc |-> doStep_parseActions(md1, tree), flag_broken |-> fb2,
         flag_problem |-> fp2]

\* descriptor extraction that does not return after a parse error and goes
\* on with a tree that has no element
doStep_parseModDesc_noReturn(md, fb, fp, imageDDS, parsed) ==
    IF parsed.kind = "false"
    THEN parseModDesc_extract(md, util_raiseFlag(fb, "NOT_MOD_MODDESC_PARSE_ERROR"),
                              fp, imageDDS, NoTree)
    ELSE IF parsed.kind = "null"
    THEN [modDesc |-> md, flag_broken |-> util_raiseFlag(fb, "NOT_MOD_MODDESC_MISSING"),
          flag_problem |-> fp]
    ELSE parseModDesc_extract(md, fb, fp, imageDDS, parsed.tree)

\* #doStep_parseModDesc after readXML has returned: the new values of
\* modDesc, #flag_broken and #flag_problem
doStep_parseModDesc(md, fb, fp, imageDDS, parsed) ==
    IF parsed.kind = "false"
    THEN [modDesc |-> md, flag_broken |-> util_raiseFlag(fb, "NOT_MOD_MODDESC_PARSE_ERROR"),
          flag_problem |-> fp]
    ELSE IF parsed.kind = "null"
    THEN [modDesc |-> md, flag_broken |-> util_raiseFlag(fb, "NOT_MOD_MODDESC_MISSING"),
          flag_problem |-> fp]
    ELSE parseModDesc_extract(md, fb, fp, imageDDS, parsed.tree)

(***************************************************************************)
(* Localization.                                                           *)
(***************************************************************************)
\* searchTree?.[lang]
L10nLookup(node, lang) ==
    IF node.kind = "map" /\ \E p \in node.map : p[1] = lang
    THEN << (CHOOSE p \in node.map : p[1] = lang)[2] >>
    ELSE <<>>

\* #modDesc_localString: a missing tree, a missing key and a plain string
\* all end at the fallback
modDesc_localString(parsed, key, fallback, loc) ==
    LET node == IF parsed.kind = "tree" THEN parsed.tree[key] ELSE L10nAbsent
        own  == L10nLookup(node, loc)
        en   == L10nLookup(node, "en")
        de   == L10nLookup(node, "de")
    IN  IF own # <<>> THEN own[1]
        ELSE IF en # <<>> THEN en[1]
        ELSE IF de # <<>> THEN de[1]
        ELSE fallback

\* a localization that raises the flag only for a descriptor that was parsed
doStep_l10n_parsedOnly(parsed, loc, fi) ==
    LET title == modDesc_localString(parsed, "title", "--", loc)
        desc  == modDesc_localString(parsed, "description", "", loc)
    IN  [ flag_info |-> ObjSet(fi, "PERF_L10N_NOT_SET",
                               parsed.kind = "tree" /\ (title = "--" \/ desc = "")),
          l10n |-> [title |-> title, description |-> desc] ]

\* #doStep_l10n: the new values of #l10n and #flag_info
doStep_l10n(parsed, loc, fi) ==
    LET title == modDesc_localString(parsed, "title", "--", loc)
        desc  == modDesc_localString(parsed, "description", "", loc)
    IN  [ flag_info |-> ObjSet(fi, "PERF_L10N_NOT_SET", title = "--" \/ desc = ""),
          l10n |-> [title |-> title, description |-> desc] ]

(***************************************************************************)
(* Report assembly.                                                        *)
(***************************************************************************)
\* Object.entries(o).filter((x) => x[1] === true).map((x) => x[0])
TrueKeys(o) == ObjKeys(SelectSeq(o, LAMBDA e : e.v = TRUE))

\* get #doStep_canUse
doStep_canUse(fd, fb) == IF fd.isSaveGame THEN TRUE ELSE SomeTrue(fb)

\* badges without the save-game override of broken
doStep_badges_noOverride(fd, md, fb, fp, fi) ==
    TrueKeys(<<
        [k |-> "broken",   v |-> SomeTrue(fb)],
        [k |-> "folder",   v |-> fd.isFolder],
        [k |-> "malware",  v |-> ObjGet(fi, "MALICIOUS_CODE")],
        [k |-> "noMP",     v |-> ~md.multiPlayer /\ fd.isFolder],
        [k |-> "notmod",   v |-> ObjGet(fb, "NOT_MOD_MODDESC_MISSING")],
        [k |-> "pconly",   v |-> md.scriptFiles > 0],
        [k |-> "problem",  v |-> IF fd.isSaveGame THEN FALSE ELSE SomeTrue(fp)],
        [k |-> "savegame", v |-> fd.isSaveGame] >>)

\* badges whose noMP badge looks at the folder only
doStep_badges_noMPForFolders(fd, md, fb, fp, fi) ==
    TrueKeys(<<
        [k |-> "broken",   v |-> IF fd.isSaveGame THEN FALSE ELSE SomeTrue(fb)],
        [k |-> "folder",   v |-> fd.isFolder],
        [k |-> "malware",  v |-> ObjGet(fi, "MALICIOUS_CODE")],
        [k |-> "noMP",     v |-> fd.isFolder],
        [k |-> "notmod",   v |-> ObjGet(fb, "NOT_MOD_MODDESC_MISSING")],
        [k |-> "pconly",   v |-> md.scriptFiles > 0],
        [k |-> "problem",  v |-> IF fd.isSaveGame THEN FALSE ELSE SomeTrue(fp)],
        [k |-> "savegame", v |-> fd.isSaveGame] >>)

\* get #doStep_badges
doStep_badges(fd, md, fb, fp, fi) ==
    TrueKeys(<<
        [k |-> "broken",   v |-> IF fd.isSaveGame THEN FALSE ELSE SomeTrue(fb)],
        [k |-> "folder",   v |-> fd.isFolder],
        [k |-> "malware",  v |-> ObjGet(fi, "MALICIOUS_CODE")],
        [k |-> "noMP",     v |-> ~md.multiPlayer /\ fd.isFolder],
        [k |-> "notmod",   v |-> ObjGet(fb, "NOT_MOD_MODDESC_MISSING")],
        [k |-> "pconly",   v |-> md.scriptFiles > 0],
        [k |-> "problem",  v |-> IF fd.isSaveGame THEN FALSE ELSE SomeTrue(fp)],
        [k |-> "savegame", v |-> fd.isSaveGame] >>)

\* the three categories merged in the opposite order
storable_issues_infoFirst(fb, fp, fi) == TrueKeys(Spread(Spread(fi, fp), fb))

\* the issues of the record
storable_issues(fb, fp, fi) == TrueKeys(Spread(Spread(fb, fp), fi))

\* get storable: the record of the report
storable ==
    [ badgeArray |-> doStep_badges(fileDetail, modDesc, flag_broken, flag_problem, flag_info),
      canNotUse  |-> doStep_canUse(fileDetail, flag_broken),
      fileDetail |-> fileDetail,
      issues     |-> storable_issues(flag_broken, flag_problem, flag_info),
      l10n       |-> l10n,
      md5Sum     |-> md5Sum,
      modDesc    |-> modDesc ]

(***************************************************************************)
(* The pipeline driver, getInfo, one action per stage.  An exception       *)
(* thrown inside the try block is caught by its catch clause: the notice   *)
(* is logged and the driver is at "Stopped", from where the finally block  *)
(* runs.                                                                   *)
(***************************************************************************)
\* an exception that leaves getInfo: no catch clause, no finally block
getInfo_next_uncaught(at, mapConfigFile) ==
    CASE at = "Start"            -> {"ValidateName"}
      [] at = "NameChecked"      -> {"NewHandle"}
      [] at = "Constructed"      -> {"OpenArchive"}
      [] at = "Opened"           -> {"CheckContents"}
      [] at = "Classifying"      -> {"WalkEntry", "WalkDone"}
      [] at = "ReadingLua"       -> {"LuaRead"}
      [] at = "Classified"       -> {"ParseModDesc"}
      [] at = "DescriptorParsed" -> IF mapConfigFile # <<>> THEN {"ParseMap"}
                                                              ELSE {"DecodeIcon"}
      [] at = "MapParsed"        -> {"DecodeIcon"}
      [] at = "IconDecoded"      -> {"Localize"}
      [] at = "Localized"        -> {"Release"}
      [] at = "Released"         -> {"Assemble"}
      [] OTHER                   -> {}

\* a driver that does not await the file walk: descriptor extraction may
\* start while entries are still being classified
getInfo_next_noAwait(at, mapConfigFile) ==
    CASE at = "Start"            -> {"ValidateName"}
      [] at = "NameChecked"      -> {"NewHandle"}
      [] at = "Constructed"      -> {"OpenArchive"}
      [] at = "Opened"           -> {"CheckContents"}
      [] at = "Classifying"      -> {"WalkEntry", "WalkDone", "ParseModDesc"}
      [] at = "ReadingLua"       -> {"LuaRead"}
      [] at = "Classified"       -> {"ParseModDesc"}
      [] at = "DescriptorParsed" -> IF mapConfigFile # <<>> THEN {"ParseMap"}
                                                              ELSE {"DecodeIcon"}
      [] at = "MapParsed"        -> {"DecodeIcon"}
      [] at = "IconDecoded"      -> {"Localize"}
      [] at = "Stopped"          -> {"Localize"}
      [] at = "Localized"        -> {"Release"}
      [] at = "Released"         -> {"Assemble"}
      [] OTHER                   -> {}

\* the control flow of getInfo: the stages that run next from a state of the
\* driver; none once the report is returned
getInfo_next(at, mapConfigFile) ==
    CASE at = "Start"            -> {"ValidateName"}
      [] at = "NameChecked"      -> {"NewHandle"}
      [] at = "Constructed"      -> {"OpenArchive"}
      [] at = "Opened"           -> {"CheckContents"}
      [] at = "Classifying"      -> {"WalkEntry", "WalkDone"}
      [] at = "ReadingLua"       -> {"LuaRead"}
      [] at = "Classified"       -> {"ParseModDesc"}
      [] at = "DescriptorParsed" -> IF mapConfigFile # <<>> THEN {"ParseMap"}
                                                              ELSE {"DecodeIcon"}
      [] at = "MapParsed"        -> {"DecodeIcon"}
      [] at = "IconDecoded"      -> {"Localize"}
      [] at = "Stopped"          -> {"Localize"}
      [] at = "Localized"        -> {"Release"}
      [] at = "Released"         -> {"Assemble"}
      [] OTHER                   -> {}

\* the driver is about to run a stage
At(stage) == stage \in getInfo_next(pc, modDesc.mapConfigFile)

\* the unmodified artifact answers the second instance as it answered the
\* first: the first run accepts any answer, the second run accepts the
\* answer the first run recorded for its next collaborator call
Answered(kind, a) ==
    \/ run = 1
    \/ /\ answers # <<>>
       /\ Head(answers).kind = kind
       /\ Head(answers).answer = a

\* the answer is kept for the second instance, which uses it up
Answer(kind, a) ==
    answers' = IF run = 1 THEN Append(answers, [kind |-> kind, answer |-> a])
               ELSE Tail(answers)

Stop(msg) ==
    /\ pc' = "Stopped"
    /\ log' = Append(log, "Stopping Mod Parse : " \o msg)

\* the name validator and the flag raised for an invalid name
ValidateName ==
    /\ At("ValidateName")
    /\ LET r == doStep_validFileName(fileDetail.fullPath, fileDetail.shortName,
                                     fileDetail.isFolder)
           raised == IF r.valid THEN r.raise
                     ELSE r.raise \cup {"FILE_ERROR_NAME_INVALID"}
       IN  /\ isValidMod' = r.valid
           /\ flag_broken' = util_raiseFlags(flag_broken, raised)
           /\ fileDetail' = [fileDetail EXCEPT !.copyName = r.copyName]
    /\ pc' = "NameChecked"
    /\ stages' = Append(stages, "name")
    /\ UNCHANGED << run, first, answers, input, artifact, modDesc, modDescParsed, md5Sum, locale, flag_problem,
                    flag_info, maxFilesType, l10n, modHandle, listed, log, report >>

\* an open() returning false that raises the flag whatever the name
getInfo_couldNotOpen_anyName(valid, fb) ==
    [ flag_broken |-> util_raiseFlag(fb, "FILE_ERROR_UNREADABLE_ZIP"),
      msg |-> "Unreadable ZIP File" ]

\* open() returned false: the flag raised and the message of the exception
getInfo_couldNotOpen(valid, fb) ==
    IF ~valid
    THEN [ flag_broken |-> fb, msg |-> "Invalid Mod" ]
    ELSE [ flag_broken |-> util_raiseFlag(fb, "FILE_ERROR_UNREADABLE_ZIP"),
           msg |-> "Unreadable ZIP File" ]

\* new fileHandlerAsync(...): the handle is constructed, or the constructor
\* throws; getInfo then calls open() and is suspended until it answers
NewHandle ==
    /\ At("NewHandle")
    /\ IF artifact.opens = "noHandle"
       THEN /\ Stop("collaborator")
            /\ UNCHANGED modHandle
       ELSE /\ modHandle' = "new"
            /\ pc' = "Constructed"
            /\ UNCHANGED log
    /\ UNCHANGED << run, first, answers, input, artifact, fileDetail, modDesc,
                    modDescParsed, md5Sum, locale, flag_broken, flag_problem,
                    flag_info, maxFilesType, l10n, isValidMod, listed, stages,
                    report >>

\* open() has answered: an exception, false or true
OpenArchive ==
    /\ At("OpenArchive")
    /\ stages' = Append(stages, "open")
    /\ \/ /\ artifact.opens = "throw"
          /\ Stop("collaborator")
          /\ UNCHANGED << modHandle, flag_broken >>
       \/ /\ artifact.opens = "fail"
          /\ LET r == getInfo_couldNotOpen(isValidMod, flag_broken)
             IN  /\ flag_broken' = r.flag_broken
                 /\ Stop(r.msg)
          /\ UNCHANGED modHandle
       \/ /\ artifact.opens = "ok"
          /\ modHandle' = "open"
          /\ pc' = "Opened"
          /\ UNCHANGED << flag_broken, log >>
    /\ UNCHANGED << run, first, answers, input, artifact, fileDetail, modDesc, modDescParsed, md5Sum, locale,
                    flag_problem, flag_info, maxFilesType, l10n, isValidMod, listed,
                    report >>

\* a missing descriptor that leaves the checksum as it was
DescriptorMissing_keepsChecksum ==
    /\ flag_broken' = util_raiseFlag(flag_broken, "NOT_MOD_MODDESC_MISSING")
    /\ md5Sum' = md5Sum
    /\ Stop("ModDesc Missing, Invalid, or Un-Readable")

\* exists('modDesc.xml') is false: the flag, the checksum and the throw
DescriptorMissing ==
    /\ flag_broken' = util_raiseFlag(flag_broken, "NOT_MOD_MODDESC_MISSING")
    /\ md5Sum' = <<>>
    /\ Stop("ModDesc Missing, Invalid, or Un-Readable")

\* a driver that looks at the validity of the name before the marker
getInfo_contents_nameFirst(hasSaveGame, valid, hasModDesc) ==
    IF ~valid THEN "invalid"
    ELSE IF hasSaveGame THEN "savegame"
    ELSE IF ~hasModDesc THEN "missing"
    ELSE "classify"

\* the order of the three checks of getInfo on an opened artifact
getInfo_contents(hasSaveGame, valid, hasModDesc) ==
    IF hasSaveGame THEN "savegame"
    ELSE IF ~valid THEN "invalid"
    ELSE IF ~hasModDesc THEN "missing"
    ELSE "classify"

\* the save-game marker, the validity of the name and the descriptor file
CheckContents ==
    /\ At("CheckContents")
    /\ LET found == getInfo_contents(artifact.hasSaveGame, isValidMod, artifact.hasModDesc) IN
       IF found = "savegame"
       THEN /\ fileDetail' = [fileDetail EXCEPT !.isSaveGame = TRUE]
            /\ modDesc' = [modDesc EXCEPT !.version = "--"]
            /\ flag_info' = util_raiseFlag(flag_info, "FILE_IS_A_SAVEGAME")
            /\ Stop("Savegame Detected")
            /\ stages' = Append(stages, "savegame")
            /\ UNCHANGED << flag_broken, md5Sum >>
       ELSE IF found = "invalid"
       THEN /\ Stop("Invalid Mod")
            /\ stages' = Append(stages, "savegame")
            /\ UNCHANGED << fileDetail, modDesc, flag_info, flag_broken, md5Sum >>
       ELSE IF found = "missing"
       THEN /\ DescriptorMissing
            /\ stages' = stages \o <<"savegame", "descriptor">>
            /\ UNCHANGED << fileDetail, modDesc, flag_info >>
       ELSE /\ pc' = "Classifying"
            /\ stages' = stages \o <<"savegame", "descriptor", "classify">>
            /\ UNCHANGED << fileDetail, modDesc, flag_info, flag_broken, md5Sum, log >>
    /\ UNCHANGED << run, first, answers, input, artifact, modDescParsed, locale, flag_problem, maxFilesType,
                    l10n, modHandle, isValidMod, listed, report >>

\* how many entries of the leading png run the listing has yielded
RunCount == Cardinality({ i \in 1..Len(listed) : listed[i] = RunEntry(i) })

\* the place in the catalogue of the last entry yielded, 0 during the run
LastPlace ==
    IF RunCount = Len(listed) THEN 0
    ELSE CHOOSE i \in 1..Len(Catalogue) : Catalogue[i] = listed[Len(listed)]

\* the entries the listing may yield next
NextEntries ==
    (IF RunCount = Len(listed) /\ Len(listed) < MaxRun
     THEN { RunEntry(Len(listed) + 1) } ELSE {})
    \cup
    (IF RunCount \in RunLengths /\ Len(listed) - RunCount < MaxHead
     THEN { Catalogue[i] : i \in (LastPlace + 1)..Len(Catalogue) } ELSE {})

\* what readText may answer for an entry: only a lua file of an artifact
\* that is not on the allow-list is read
ReadsFor(e) ==
    IF /\ ~e.isFolder
       /\ Substring1(ExtName(e.name)) = S_lua
       /\ fileDetail.shortName \notin malwareFalse
    THEN LuaReads
    ELSE { [kind |-> "none", text |-> <<>>] }

\* readText has not answered
NoRead == [kind |-> "none", text |-> <<>>]

\* #util_checkLUA calls readText for the entry
ReadsLua(e) == ReadsFor(e) = LuaReads

\* one iteration of the loop of #doStep_fileCounts, up to the call of
\* readText when the entry is a lua file that is scanned: the space check and
\* the script-file count are written before getInfo is suspended
WalkEntry ==
    /\ At("WalkEntry")
    /\ \E e \in NextEntries :
        LET st == fileCounts_entry(ClassifierState, e, NoRead)
        IN  /\ Answered("entry", e)
            /\ Answer("entry", e)
            /\ listed' = Append(listed, e)
            /\ fileDetail' = st.fileDetail
            /\ flag_problem' = st.flag_problem
            /\ flag_info' = st.flag_info
            /\ maxFilesType' = st.maxFilesType
            /\ modDesc' = st.modDesc
            /\ pc' = IF ReadsLua(e) THEN "ReadingLua" ELSE pc
    /\ UNCHANGED << run, first, input, artifact, modDescParsed, md5Sum, locale, flag_broken, l10n,
                    modHandle, isValidMod, stages, report, log >>

\* readText has answered: the rest of #util_checkLUA, or an exception that
\* leaves the loop
LuaRead ==
    /\ At("LuaRead")
    /\ \E read \in LuaReads :
        LET st == util_checkLUA(ClassifierState, read)
        IN  /\ Answered("readText", read)
            /\ Answer("readText", read)
            /\ flag_info' = st.flag_info
            /\ IF st.threw THEN Stop("collaborator")
               ELSE pc' = "Classifying" /\ UNCHANGED log
    /\ UNCHANGED << run, first, input, artifact, fileDetail, modDesc, modDescParsed,
                    md5Sum, locale, flag_broken, flag_problem, maxFilesType, l10n,
                    modHandle, isValidMod, listed, stages, report >>

\* the listing is exhausted: the quota flags are assigned
WalkDone ==
    /\ At("WalkDone")
    /\ RunCount \in RunLengths
    /\ run = 2 => (answers = <<>> \/ Head(answers).kind # "entry")
    /\ flag_problem' = fileCounts_quotaFlags(flag_problem, maxFilesType)
    /\ pc' = "Classified"
    /\ UNCHANGED << run, first, answers, input, artifact, fileDetail, modDesc, modDescParsed, md5Sum, locale,
                    flag_broken, flag_info, maxFilesType, l10n, modHandle, isValidMod,
                    listed, log, stages, report >>

\* #doStep_parseModDesc
ParseModDesc ==
    /\ At("ParseModDesc")
    /\ stages' = Append(stages, "parseModDesc")
    /\ \E parsed \in XmlReads :
        /\ Answered("readXML", parsed)
        /\ Answer("readXML", parsed)
        /\ IF parsed.kind = "throw"
           THEN /\ Stop("collaborator")
                /\ UNCHANGED << modDescParsed, modDesc, flag_broken, flag_problem >>
           ELSE LET r == doStep_parseModDesc(modDesc, flag_broken, flag_problem,
                                             fileDetail.imageDDS, parsed)
                IN  /\ modDescParsed' = parsed
                    /\ modDesc' = r.modDesc
                    /\ flag_broken' = r.flag_broken
                    /\ flag_problem' = r.flag_problem
                    /\ pc' = "DescriptorParsed"
                    /\ UNCHANGED log
    /\ UNCHANGED << run, first, input, artifact, fileDetail, md5Sum, locale, flag_info, maxFilesType,
                    l10n, modHandle, isValidMod, listed, report >>

\* a map stage without its own catch clause: the exception reaches the
\* catch clause of getInfo
ParseMap_uncaught ==
    /\ Stop("Config file does not Exist")
    /\ UNCHANGED modDesc

\* the catch clause of the map stage: a notice, and getInfo goes on
ParseMap_catch ==
    /\ log' = Append(log, "Caught map fail")
    /\ pc' = "MapParsed"
    /\ UNCHANGED modDesc

\* the map/crop stage, run when the descriptor names a map config file
ParseMap ==
    /\ At("ParseMap")
    /\ stages' = Append(stages, "map")
    /\ \E m \in MapReads :
        /\ Answered("map", m)
        /\ Answer("map", m)
        /\ IF m.kind = "ok"
           THEN /\ modDesc' = [modDesc EXCEPT !.cropWeather = m.weather,
                                              !.cropInfo = m.crops,
                                              !.mapIsSouth = m.isSouth]
                /\ pc' = "MapParsed"
                /\ UNCHANGED log
           ELSE ParseMap_catch
    /\ UNCHANGED << run, first, input, artifact, fileDetail, modDescParsed, md5Sum, locale, flag_broken,
                    flag_problem, flag_info, maxFilesType, l10n, modHandle, isValidMod,
                    listed, report >>

\* the icon stage
DecodeIcon ==
    /\ At("DecodeIcon")
    /\ stages' = Append(stages, "icon")
    /\ IF ObjGet(flag_problem, "MOD_ERROR_NO_MOD_ICON") \/ modDesc.iconFileName = <<>>
       THEN /\ flag_problem' = util_raiseFlag(flag_problem, "MOD_ERROR_NO_MOD_ICON")
            /\ log' = Append(log, "Caught icon fail")
            /\ UNCHANGED << modDesc, answers >>
       ELSE \E ic \in IconReads :
            /\ Answered("icon", ic)
            /\ Answer("icon", ic)
            /\ IF ic.kind = "ok"
               THEN /\ modDesc' = [modDesc EXCEPT !.iconImageCache = ic.image]
                    /\ UNCHANGED << flag_problem, log >>
               ELSE /\ flag_problem' = util_raiseFlag(flag_problem, "MOD_ERROR_NO_MOD_ICON")
                    /\ log' = Append(log, "Caught icon fail")
                    /\ UNCHANGED modDesc
    /\ pc' = "IconDecoded"
    /\ UNCHANGED << run, first, input, artifact, fileDetail, modDescParsed, md5Sum, locale, flag_broken,
                    flag_info, maxFilesType, l10n, modHandle, isValidMod, listed, report >>

\* the finally block, first statement: #doStep_l10n()
Localize ==
    /\ At("Localize")
    /\ LET r == doStep_l10n(modDescParsed, locale, flag_info)
       IN  /\ flag_info' = r.flag_info
           /\ l10n' = << r.l10n >>
    /\ stages' = Append(stages, "l10n")
    /\ pc' = "Localized"
    /\ UNCHANGED << run, first, answers, input, artifact, fileDetail, modDesc, modDescParsed, md5Sum, locale,
                    flag_broken, flag_problem, maxFilesType, modHandle, isValidMod,
                    listed, log, report >>

\* a handle that is closed only when it is open
modHandle_close_openOnly(h) == IF h = "open" THEN "closed" ELSE h

\* #modHandle?.close?.()
modHandle_close(h) == IF h = "null" THEN h ELSE "closed"

\* the finally block, second statement
Release ==
    /\ At("Release")
    /\ modHandle' = modHandle_close(modHandle)
    /\ stages' = IF modHandle # "null" THEN Append(stages, "close") ELSE stages
    /\ pc' = "Released"
    /\ UNCHANGED << run, first, answers, input, artifact, fileDetail, modDesc, modDescParsed, md5Sum, locale,
                    flag_broken, flag_problem, flag_info, maxFilesType, l10n, isValidMod,
                    listed, log, report >>

\* the statements after the try statement: the report is returned
Assemble ==
    /\ At("Assemble")
    /\ modDescParsed' = [kind |-> "null", tree |-> NoTree]
    /\ report' = << storable >>
    /\ stages' = Append(stages, "assemble")
    /\ pc' = "Assembled"
    /\ UNCHANGED << run, first, answers, input, artifact, fileDetail, modDesc, md5Sum, locale, flag_broken,
                    flag_problem, flag_info, maxFilesType, l10n, modHandle, isValidMod,
                    listed, log >>

Next ==
    \/ ValidateName
    \/ NewHandle
    \/ OpenArchive
    \/ CheckContents
    \/ WalkEntry
    \/ LuaRead
    \/ WalkDone
    \/ ParseModDesc
    \/ ParseMap
    \/ DecodeIcon
    \/ Localize
    \/ Release
    \/ Assemble

Spec == Init /\ [][Next]_vars

\* a quota table that all instances share
new_maxFilesType_shared(left) == left

\* the field initializer of #maxFilesType: every instance gets a table of
\* its own, whatever another instance has left of its table
new_maxFilesType(left) == maxFilesType_init

\* after the first instance has returned its report, a second instance is
\* constructed for the same path, folder flag, checksum and locale: every
\* field has the value its initializer and the constructor give it.  Second
\* runs are made for listings that are a run of png files or entries of the
\* catalogue, not both.
SecondRun ==
    /\ pc = "Assembled"
    /\ run = 1
    /\ RunCount = 0 \/ RunCount = Len(listed)
    /\ run' = 2
    /\ first' = report
    /\ pc' = "Start"
    /\ fileDetail' = [fileDetail_init EXCEPT
                         !.fullPath  = input.fullPath,
                         !.isFolder  = input.isFolder,
                         !.shortName = ParseName(input.fullPath)]
    /\ modDesc' = modDesc_init
    /\ modDescParsed' = [kind |-> "false", tree |-> NoTree]
    /\ md5Sum' = input.md5Pre
    /\ locale' = input.locale
    /\ flag_broken' = AllFalse(BrokenNames)
    /\ flag_problem' = AllFalse(ProblemNames)
    /\ flag_info' = ObjSet(AllFalse(InfoNames), "INFO_NO_MULTIPLAYER_UNZIPPED",
                           input.isFolder)
    /\ maxFilesType' = new_maxFilesType(maxFilesType)
    /\ l10n' = <<>>
    /\ modHandle' = "null"
    /\ isValidMod' = FALSE
    /\ listed' = <<>>
    /\ log' = <<>>
    /\ stages' = <<>>
    /\ report' = <<>>
    /\ UNCHANGED << input, artifact, answers >>

NextTwoRuns ==
    \/ Next
    \/ SecondRun

\* two runs on the same unmodified artifact, each with an instance of its own
TwoRuns == Init /\ [][NextTwoRuns]_vars

(***************************************************************************)
(* Properties.                                                             *)
(***************************************************************************)
Report == report[1]

\* C1: whatever the artifact is and whatever the collaborators answer or
\* throw, a run goes on until it is at Assembled with a report returned: no
\* state of the driver other than that one is without a next stage, the walk
\* always has a next entry or ends, and no stage runs twice.
C1_RunReturnsReport ==
    /\ getInfo_next(pc, modDesc.mapConfigFile) = {} => (pc = "Assembled" /\ report # <<>>)
    /\ pc = "Assembled" => report # <<>>
    /\ pc = "Classifying" => (NextEntries # {} \/ RunCount \in RunLengths)
    /\ pc = "ReadingLua" => LuaReads # {}
    /\ \A i \in 1..Len(stages) : \A j \in 1..Len(stages) :
          stages[i] = stages[j] => i = j

\* a run that was stopped by a collaborator exception has returned a report
C1_Witness ==
    /\ pc = "Assembled"
    /\ report # <<>>
    /\ Includes(log, "Stopping Mod Parse : collaborator")

\* the places of a stage in the stages run so far
StagePlaces(name) == { i \in 1..Len(stages) : stages[i] = name }

\* C2: on every exit path the localization resolver runs exactly once, after
\* every other stage and before assembly, and a handle that was constructed
\* is closed before the report is returned.
C2_L10nOnceAndHandleReleased ==
    /\ Cardinality(StagePlaces("l10n")) <= 1
    /\ \A i \in StagePlaces("l10n") :
          \A j \in (i+1)..Len(stages) : stages[j] \in {"close", "assemble"}
    /\ report # <<>> =>
          /\ Cardinality(StagePlaces("l10n")) = 1
          /\ \A i \in StagePlaces("l10n") : \A j \in StagePlaces("assemble") : i < j
          /\ modHandle \in {"null", "closed"}
          /\ modHandle = "null" <=> artifact.opens = "noHandle"
          /\ modHandle = "closed" =>
                \A i \in StagePlaces("close") : \A j \in StagePlaces("assemble") : i < j

\* a report returned after open() threw: the handle was constructed, never
\* opened, and is closed
C2_Witness ==
    /\ report # <<>>
    /\ artifact.opens = "throw"
    /\ modHandle = "closed"
    /\ stages = <<"name", "open", "l10n", "close", "assemble">>

\* every broken flag is false
NoBroken == ~SomeTrue(flag_broken)

\* C3 (as claimed): in the final report the artifact is marked usable
\* (canNotUse = false) iff every broken flag is false, except that a
\* save-game is always marked usable.
C3_UsableIffNoBrokenOrSaveGame ==
    pc = "Assembled" =>
        (Report.canNotUse = FALSE <=> (fileDetail.isSaveGame \/ NoBroken))

\* C4: a run on an artifact holding the save-game marker ends with the badge
\* savegame and with neither broken nor problem, whatever flags were raised.
C4_SaveGameBadges ==
    (pc = "Assembled" /\ artifact.hasSaveGame) =>
        /\ Includes(Report.badgeArray, "savegame")
        /\ ~Includes(Report.badgeArray, "broken")
        /\ ~Includes(Report.badgeArray, "problem")

\* a save-game with an invalid name: broken flags are raised, and so is the
\* localization flag
C4_Witness ==
    /\ pc = "Assembled"
    /\ artifact.hasSaveGame
    /\ ObjGet(flag_broken, "FILE_ERROR_NAME_INVALID")
    /\ ObjGet(flag_info, "PERF_L10N_NOT_SET")
    /\ Includes(Report.badgeArray, "savegame")

\* what C5 promises of the report
MissingDescriptorReport ==
    /\ Includes(Report.issues, "NOT_MOD_MODDESC_MISSING")
    /\ Includes(Report.badgeArray, "notmod")
    /\ Report.canNotUse = TRUE
    /\ Report.md5Sum = <<>>

\* C5 (as claimed): every run on an artifact without modDesc.xml reports the
\* missing descriptor, is marked unusable and has a null checksum.
C5_MissingDescriptorAlways ==
    (pc = "Assembled" /\ artifact.opens = "ok" /\ ~artifact.hasModDesc) =>
        MissingDescriptorReport

\* C5 (amended): every run on an artifact that has a valid name, opens, holds
\* no save-game marker and holds no modDesc.xml reports the missing
\* descriptor, is marked unusable and has a null checksum.
C5_MissingDescriptorWhenReached ==
    (/\ pc = "Assembled"
     /\ artifact.opens = "ok"
     /\ isValidMod
     /\ ~artifact.hasSaveGame
     /\ ~artifact.hasModDesc) => MissingDescriptorReport

\* such a run, made with a checksum given to the constructor
C5_Witness ==
    /\ pc = "Assembled"
    /\ artifact.opens = "ok"
    /\ isValidMod
    /\ ~artifact.hasSaveGame
    /\ ~artifact.hasModDesc
    /\ input.md5Pre # <<>>
    /\ Report.md5Sum = <<>>

\* the flags of the three categories: category and name
FlagSlots ==
    { <<"broken", k>>  : k \in Range(ObjKeys(flag_broken)) }
    \cup { <<"problem", k>> : k \in Range(ObjKeys(flag_problem)) }
    \cup { <<"info", k>>    : k \in Range(ObjKeys(flag_info)) }

\* the value of a flag in this state
FlagValue(slot) ==
    CASE slot[1] = "broken"  -> ObjGet(flag_broken, slot[2])
      [] slot[1] = "problem" -> ObjGet(flag_problem, slot[2])
      [] OTHER               -> ObjGet(flag_info, slot[2])

\* no step sets a true flag back to false
FlagsNeverCleared ==
    \A slot \in FlagSlots : FlagValue(slot) => FlagValue(slot)'

\* C6 (as claimed): every flag of the three categories is false when a run
\* starts, and no later step sets a flag that is true back to false.
C6_FlagsStartFalseAndStayRaised ==
    /\ (pc = "Start" => \A slot \in FlagSlots : ~FlagValue(slot))
    /\ [][FlagsNeverCleared]_vars

\* C7 (as claimed): in every reachable state the name sets of the three
\* categories are pairwise disjoint and are the names the categories were
\* declared with.
C7_CategoriesDisjointAndFixed ==
    /\ ObjKeys(flag_broken)  = BrokenNames
    /\ ObjKeys(flag_problem) = ProblemNames
    /\ ObjKeys(flag_info)    = InfoNames
    /\ Range(ObjKeys(flag_broken))  \cap Range(ObjKeys(flag_problem)) = {}
    /\ Range(ObjKeys(flag_broken))  \cap Range(ObjKeys(flag_info))    = {}
    /\ Range(ObjKeys(flag_problem)) \cap Range(ObjKeys(flag_info))    = {}

\* the names that are true in at least one category
RaisedNames == { slot[2] : slot \in { f \in FlagSlots : FlagValue(f) } }

\* C8: the issues of the report are exactly the names that are true at
\* assembly in at least one category, each listed once.
C8_IssuesAreRaisedNames ==
    pc = "Assembled" =>
        /\ Range(Report.issues) = RaisedNames
        /\ Len(Report.issues) = Cardinality(Range(Report.issues))

\* a report of a run that raised flags in all three categories, one of them
\* under a name that two categories hold
C8_Witness ==
    /\ pc = "Assembled"
    /\ ObjGet(flag_info, "PERF_L10N_NOT_SET")
    /\ ObjHas(flag_problem, "PERF_L10N_NOT_SET")
    /\ SomeTrue(flag_broken)
    /\ SomeTrue(flag_problem)
    /\ Len(Report.issues) >= 3

\* the loop of #doStep_fileCounts ran to its end
WalkCompleted == pc = "Classified" \/ Includes(stages, "parseModDesc")

\* the file entries of the listing whose extension is exactly the tag
FilesOfType(tag) ==
    { i \in 1..Len(listed) :
        ~listed[i].isFolder /\ Substring1(ExtName(listed[i].name)) = tag }

\* the flag that tells of too many files of a type
TooManyFlag(type) == "PERF_" \o Join(ToUpperCase(type)) \o "_TOO_MANY"

\* C9 (as claimed): after a completed walk with n files of the type grle, pdf
\* or txt the remaining quota of the type is its initial quota less n, and
\* the too-many flag of the type is raised when n is at least the quota.
C9_QuotaTickedPerFile ==
    WalkCompleted =>
        \A type \in {S_grle, S_pdf, S_txt} :
            LET n == Cardinality(FilesOfType(type))
            IN  /\ maxFilesType[TypeKey(type)] = maxFilesType_init[TypeKey(type)] - n
                /\ n >= maxFilesType_init[TypeKey(type)] =>
                       ObjGet(flag_problem, TooManyFlag(type))

\* C10: after a completed walk the number of png files seen, the _weight.png
\* files among them, is the initial png quota less the remaining one, and
\* PERF_PNG_TOO_MANY is raised if that number exceeds the initial quota.
C10_PngQuota ==
    WalkCompleted =>
        LET n == Cardinality(FilesOfType(S_png))
        IN  /\ n = maxFilesType_init.png - maxFilesType.png
            /\ n > maxFilesType_init.png => ObjGet(flag_problem, "PERF_PNG_TOO_MANY")

\* a completed walk over more png files than the quota, one of them a
\* _weight.png file that is no texture
C10_Witness ==
    /\ WalkCompleted
    /\ Cardinality(FilesOfType(S_png)) > maxFilesType_init.png
    /\ \E i \in FilesOfType(S_png) : EndsWith(listed[i].name, S_weightpng)
    /\ Len(fileDetail.pngTexture) < Cardinality(FilesOfType(S_png))
    /\ ObjGet(flag_problem, "PERF_PNG_TOO_MANY")

\* the types that have a size policy
SizePolicyTypes == { S_cache, S_dds, S_gdm, S_shapes, S_xml }

\* an entry of the listing is a file over the threshold of its type
IsOverThreshold(e) ==
    /\ ~e.isFolder
    /\ Substring1(ExtName(e.name)) \in SizePolicyTypes
    /\ e.size > fileSizeMap[TypeKey(Substring1(ExtName(e.name)))]

\* C11: in every state each name in tooBigFiles is the name of a walked
\* entry, and every walked entry of that name is a file whose type has a size
\* policy and whose size is strictly greater than the threshold of the type:
\* an entry at or below its threshold, or of a type without a size policy, is
\* never in tooBigFiles.
C11_TooBigFilesAreOverThreshold ==
    \A n \in Range(fileDetail.tooBigFiles) :
        /\ \E i \in 1..Len(listed) : listed[i].name = n
        /\ \A i \in 1..Len(listed) : listed[i].name = n => IsOverThreshold(listed[i])

\* a dds file one byte over the threshold was walked and is the one file in
\* tooBigFiles
C11_Witness ==
    /\ Len(fileDetail.tooBigFiles) = 1
    /\ \E i \in 1..Len(listed) :
          /\ listed[i].name = fileDetail.tooBigFiles[1]
          /\ Substring1(ExtName(listed[i].name)) = S_dds
          /\ listed[i].size = fileSizeMap.dds + 1
    /\ ObjGet(flag_problem, "PERF_DDS_TOO_BIG")

\* C12: the report of a run on a folder with a valid name has the badge
\* folder, and has the badge noMP iff the multiplayer value of the descriptor
\* is false.
C12_FolderBadges ==
    (pc = "Assembled" /\ input.isFolder /\ isValidMod) =>
        /\ Includes(Report.badgeArray, "folder")
        /\ Includes(Report.badgeArray, "noMP") <=> (modDesc.multiPlayer = FALSE)

\* a folder whose descriptor declares multiplayer support: folder without noMP
C12_Witness ==
    /\ pc = "Assembled"
    /\ input.isFolder
    /\ isValidMod
    /\ modDesc.multiPlayer = TRUE
    /\ Includes(Report.badgeArray, "folder")
    /\ ~Includes(Report.badgeArray, "noMP")

\* the artifact is a file whose path does not end in .zip
NotZipFile == ~input.isFolder /\ ~EndsWith(input.fullPath, S_zip)

\* C14: once the name is validated, a file whose path does not end in .zip
\* is invalid, has exactly one of FILE_ERROR_UNSUPPORTED_ARCHIVE (the path
\* ends in .rar or .7z) and FILE_ERROR_GARBAGE_FILE (any other path), and has
\* none of the later name flags; a folder or .zip file has neither of the two.
C14_ExtensionFlags ==
    Includes(stages, "name") =>
        LET unsupported == ObjGet(flag_broken, "FILE_ERROR_UNSUPPORTED_ARCHIVE")
            garbage     == ObjGet(flag_broken, "FILE_ERROR_GARBAGE_FILE")
        IN  IF NotZipFile
            THEN /\ ~isValidMod
                 /\ unsupported <=> (\/ EndsWith(input.fullPath, S_rar)
                                     \/ EndsWith(input.fullPath, S_7z))
                 /\ garbage <=> ~unsupported
                 /\ ~ObjGet(flag_broken, "FILE_ERROR_LIKELY_ZIP_PACK")
                 /\ ~ObjGet(flag_broken, "FILE_ERROR_NAME_STARTS_DIGIT")
                 /\ ~ObjGet(flag_broken, "FILE_ERROR_LIKELY_COPY")
                 /\ fileDetail.copyName = <<>>
            ELSE ~unsupported /\ ~garbage

\* a .7z file whose short name starts with a digit and holds "unzip": only
\* the unsupported-archive flag of the name validator is raised
C14_Witness ==
    /\ Includes(stages, "name")
    /\ NotZipFile
    /\ EndsWith(input.fullPath, S_7z)
    /\ MatchStartsDigit(fileDetail.shortName)
    /\ MatchUnzip(fileDetail.shortName)
    /\ ObjGet(flag_broken, "FILE_ERROR_UNSUPPORTED_ARCHIVE")
    /\ ~ObjGet(flag_broken, "FILE_ERROR_GARBAGE_FILE")

\* the resolved title is its fallback or the resolved description is empty
L10nNotSet == l10n[1].title = "--" \/ l10n[1].description = ""

\* C15 (as claimed): in the final report PERF_L10N_NOT_SET is true in the
\* problem category iff the resolved title is '--' or the resolved description
\* is empty, and then the badges of an artifact that is no save-game contain
\* problem.
C15_L10nFlagIsAProblem ==
    pc = "Assembled" =>
        /\ ObjGet(flag_problem, "PERF_L10N_NOT_SET") <=> L10nNotSet
        /\ (L10nNotSet /\ ~fileDetail.isSaveGame) =>
               Includes(Report.badgeArray, "problem")

\* the stages of a run in the order of the statements of getInfo
StageOrder ==
    << "name", "open", "savegame", "descriptor", "classify", "parseModDesc",
       "map", "icon", "l10n", "close", "assemble" >>

\* the place of a stage in that order
StageRank(name) == CHOOSE i \in 1..Len(StageOrder) : StageOrder[i] = name

\* the four quota flags have the values #doStep_fileCounts assigns after its loop
QuotaFlagsSet ==
    /\ ObjGet(flag_problem, "PERF_GRLE_TOO_MANY") = (maxFilesType.grle < 1)
    /\ ObjGet(flag_problem, "PERF_PNG_TOO_MANY")  = (maxFilesType.png < 1)
    /\ ObjGet(flag_problem, "PERF_PDF_TOO_MANY")  = (maxFilesType.pdf < 1)
    /\ ObjGet(flag_problem, "PERF_TXT_TOO_MANY")  = (maxFilesType.txt < 1)

\* C16: the stages of a run happen one after the other in the fixed order;
\* descriptor extraction starts only after the file walk has finished and the
\* quota flags are set, map extraction only after descriptor extraction and
\* only when a map-config file name was declared, and the icon stage follows.
C16_StagesInOrder ==
    /\ \A i \in 1..Len(stages) : \A j \in 1..Len(stages) :
          i < j => StageRank(stages[i]) < StageRank(stages[j])
    /\ Range(stages) \subseteq Range(StageOrder)
    /\ pc \in {"Classifying", "ReadingLua"} => ~Includes(stages, "parseModDesc")
    /\ Includes(stages, "parseModDesc") =>
          /\ Includes(stages, "classify")
          /\ pc \notin {"Classifying", "ReadingLua"}
          /\ QuotaFlagsSet
    /\ Includes(stages, "map") =>
          /\ Includes(stages, "parseModDesc")
          /\ pc \notin {"Classifying", "ReadingLua", "Classified"}
          /\ modDesc.mapConfigFile # <<>>
    /\ Includes(stages, "icon") =>
          /\ Includes(stages, "parseModDesc")
          /\ Includes(stages, "map") <=> (modDesc.mapConfigFile # <<>>)

\* a run that went through every stage, the map stage among them, after a
\* walk of as many png files as the quota
C16_Witness ==
    /\ pc = "Assembled"
    /\ stages = StageOrder
    /\ maxFilesType.png = 0
    /\ ObjGet(flag_problem, "PERF_PNG_TOO_MANY")

\* C17 (as claimed): if the walk of a run saw a file whose tag is l64 or dat,
\* INFO_MIGHT_BE_PIRACY is in the issues of the final report.
C17_PiracySurvives ==
    (pc = "Assembled" /\ (FilesOfType(S_l64) \cup FilesOfType(S_dat)) # {}) =>
        Includes(Report.issues, "INFO_MIGHT_BE_PIRACY")

\* the step classifies a directory entry of the listing
WalksFolder ==
    /\ Len(listed') = Len(listed) + 1
    /\ listed'[Len(listed')].isFolder

\* C18 (as claimed): classifying a directory entry changes no classification
\* list, no quota, no counter and no flag, whatever the name of the entry.
C18_FolderEntrySkipped ==
    [][WalksFolder =>
          UNCHANGED << fileDetail, maxFilesType, modDesc,
                       flag_broken, flag_problem, flag_info >>]_vars

\* String.prototype.toLowerCase
ToLowerCase(s) == [i \in 1..Len(s) |-> ToLowerChar(s[i])]

\* the entry with the letters of its extension in upper case
UpperExt(e) ==
    LET ext == ExtName(e.name)
    IN  [e EXCEPT !.name = SubSeq(e.name, 1, Len(e.name) - Len(ext)) \o ToUpperCase(ext)]

\* the classification lists of fileDetail
ListNames ==
    { "imageDDS", "imageNonDDS", "pngTexture", "i3dFiles", "tooBigFiles",
      "spaceFiles", "extraFiles" }

\* classifying one entry or the other from this state raises the same flags,
\* changes the same quota and counter and enters the same lists
SameClassification(e1, e2, read) ==
    LET a == fileCounts_entry(ClassifierState, e1, read)
        b == fileCounts_entry(ClassifierState, e2, read)
    IN  /\ a.flag_problem = b.flag_problem
        /\ a.flag_info = b.flag_info
        /\ a.maxFilesType = b.maxFilesType
        /\ a.modDesc.scriptFiles = b.modDesc.scriptFiles
        /\ \A l \in ListNames :
              Includes(a.fileDetail[l], e1.name) <=> Includes(b.fileDetail[l], e2.name)

\* C19 (as claimed): the classifier dispatches on the lower-cased extension:
\* no file whose lower-cased tag is known-good is in extraFiles, and a file
\* entry and the entry that differs from it only in the letter case of its
\* extension are classified alike.
C19_DispatchIgnoresCase ==
    /\ \A n \in Range(fileDetail.extraFiles) :
          ToLowerCase(Substring1(ExtName(n))) \notin knownGood
    /\ pc = "Classifying" =>
          \A i \in 1..Len(Catalogue) :
              ~Catalogue[i].isFolder =>
                  \A read \in ReadsFor(Catalogue[i]) :
                      SameClassification(Catalogue[i], UpperExt(Catalogue[i]), read)

\* the file walk is going on
InWalk == pc = "Classifying" \/ pc = "ReadingLua"

\* C20 (as claimed): a failing text read of the lua scan is caught at that
\* file: no step of the file walk leaves the walk other than by finishing it,
\* so the remaining entries are classified, the quota flags are evaluated and
\* descriptor extraction follows.
C20_LuaFailureDoesNotEndWalk ==
    [][InWalk => (InWalk' \/ pc' = "Classified")]_vars

\* a step of the map/crop stage
MapStep == pc = "DescriptorParsed" /\ modDesc.mapConfigFile # <<>>

\* a step of the icon stage
IconStep == pc = "MapParsed" \/ (pc = "DescriptorParsed" /\ modDesc.mapConfigFile = <<>>)

\* the three crop fields of a descriptor record have their default values
CropDefaults(md) ==
    /\ md.cropInfo = modDesc_init.cropInfo
    /\ md.cropWeather = modDesc_init.cropWeather
    /\ md.mapIsSouth = modDesc_init.mapIsSouth

\* C21: a step of the map/crop stage goes on to the icon stage and raises no
\* broken flag, and when it failed the crop fields keep their defaults; a
\* step of the icon stage goes on to localization and raises no broken flag,
\* and when it decoded no image MOD_ERROR_NO_MOD_ICON is true; the report of
\* a run with a map failure has the default crop fields and an icon stage,
\* the report of a run with an icon failure has MOD_ERROR_NO_MOD_ICON and a
\* localization stage after the icon stage.
C21_MapAndIconFailuresRecovered ==
    [][ /\ MapStep =>
            /\ pc' = "MapParsed"
            /\ flag_broken' = flag_broken
            /\ Includes(log', "Caught map fail") => CropDefaults(modDesc')
        /\ IconStep =>
            /\ pc' = "IconDecoded"
            /\ flag_broken' = flag_broken
            /\ Includes(log', "Caught icon fail") =>
                   /\ ObjGet(flag_problem', "MOD_ERROR_NO_MOD_ICON")
                   /\ modDesc'.iconImageCache = <<>>
        /\ (pc' = "Assembled" /\ Includes(log', "Caught map fail")) =>
            /\ CropDefaults(report'[1].modDesc)
            /\ StagePlaces("icon")' # {}
        /\ (pc' = "Assembled" /\ Includes(log', "Caught icon fail")) =>
            /\ Includes(report'[1].issues, "MOD_ERROR_NO_MOD_ICON")
            /\ \E i \in StagePlaces("icon")' : \E j \in StagePlaces("l10n")' : i < j
      ]_vars

\* a report of a run in which the map stage failed and then the decoder of
\* the icon threw
C21_Witness ==
    /\ pc = "Assembled"
    /\ Includes(log, "Caught map fail")
    /\ Includes(log, "Caught icon fail")
    /\ Report.modDesc.iconFileName # <<>>
    /\ CropDefaults(Report.modDesc)

\* the open stage has run
OpenRan == Includes(stages, "open")

\* open() returned false
CouldNotOpen == OpenRan /\ artifact.opens = "fail"

\* the flags name validation raises for the artifact
NameFlags ==
    LET r == doStep_validFileName(fileDetail.fullPath, fileDetail.shortName,
                                  fileDetail.isFolder)
    IN  IF r.valid THEN r.raise ELSE r.raise \cup {"FILE_ERROR_NAME_INVALID"}

\* the flags that are true when the constructor returns
ConstructorFlags ==
    IF input.isFolder THEN {"INFO_NO_MULTIPLAYER_UNZIPPED"} ELSE {}

\* no save-game check, classification or descriptor work has been done
NoContentWork ==
    /\ \A i \in 1..Len(stages) :
          stages[i] \notin {"savegame", "descriptor", "classify", "parseModDesc",
                            "map", "icon"}
    /\ listed = <<>>
    /\ ~fileDetail.isSaveGame
    /\ fileDetail = [fileDetail_init EXCEPT !.fullPath = input.fullPath,
                                            !.isFolder = input.isFolder,
                                            !.shortName = fileDetail.shortName,
                                            !.copyName = fileDetail.copyName]
    /\ modDesc = modDesc_init
    /\ maxFilesType = maxFilesType_init
    /\ modDescParsed.kind # "tree"

\* C22: FILE_ERROR_UNREADABLE_ZIP is raised exactly when the name is valid
\* and open() has returned false; when open() has returned false no
\* save-game check, classification or descriptor work is done, and for an
\* invalid name the run stops with the flags of name validation as the only
\* flags raised since construction, and no broken or problem flag is added
\* up to the report.
C22_UnreadableIffValidNameAndNotOpened ==
    /\ ObjGet(flag_broken, "FILE_ERROR_UNREADABLE_ZIP") <=> (CouldNotOpen /\ isValidMod)
    /\ CouldNotOpen =>
        /\ NoContentWork
        /\ pc \in {"Stopped", "Localized", "Released", "Assembled"}
        /\ ~isValidMod =>
            /\ Range(TrueKeys(flag_broken)) = NameFlags
            /\ ~SomeTrue(flag_problem)
            /\ pc = "Stopped" => RaisedNames \ ConstructorFlags = NameFlags

\* a report of a run on an archive with an invalid name whose open()
\* returned false
C22_Witness ==
    /\ pc = "Assembled"
    /\ CouldNotOpen
    /\ ~isValidMod
    /\ "FILE_ERROR_NAME_INVALID" \in NameFlags
    /\ Cardinality(NameFlags) > 1
    /\ ~Includes(Report.issues, "FILE_ERROR_UNREADABLE_ZIP")

\* the save-game check has run on an artifact that holds the marker
SaveGameFound == Includes(stages, "savegame") /\ artifact.hasSaveGame

\* the lists the file classifier fills
ClassificationLists ==
    { "extraFiles", "i3dFiles", "imageDDS", "imageNonDDS", "pngTexture",
      "spaceFiles", "tooBigFiles" }

\* C23: from the save-game check on, a run on an opened artifact holding the
\* marker has isSaveGame true, descriptor version '--' and FILE_IS_A_SAVEGAME
\* raised, has run no classification or descriptor stage, and has every
\* classification list empty, every quota at its initial value, script-file
\* count 0, every other descriptor field at its default and no problem flag
\* raised; its report says the same, also when the name is invalid.
C23_SaveGameSkipsContentWork ==
    SaveGameFound =>
        /\ fileDetail.isSaveGame
        /\ modDesc.version = "--"
        /\ ObjGet(flag_info, "FILE_IS_A_SAVEGAME")
        /\ \A i \in 1..Len(stages) :
              stages[i] \notin {"descriptor", "classify", "parseModDesc", "map", "icon"}
        /\ listed = <<>>
        /\ \A f \in ClassificationLists : fileDetail[f] = <<>>
        /\ maxFilesType = maxFilesType_init
        /\ modDesc.scriptFiles = 0
        /\ modDesc = modDesc_init
        /\ ~SomeTrue(flag_problem)
        /\ pc = "Assembled" =>
            /\ Report.fileDetail.isSaveGame
            /\ Report.modDesc.version = "--"
            /\ Report.modDesc.scriptFiles = 0
            /\ Includes(Report.issues, "FILE_IS_A_SAVEGAME")
            /\ \A f \in ClassificationLists : Report.fileDetail[f] = <<>>
            /\ Range(Report.issues) \cap Range(ProblemNames) \subseteq {"PERF_L10N_NOT_SET"}

\* a report of a save-game whose name is invalid
C23_Witness ==
    /\ pc = "Assembled"
    /\ SaveGameFound
    /\ ~isValidMod
    /\ Includes(Report.issues, "FILE_ERROR_NAME_INVALID")
    /\ Includes(Report.issues, "FILE_IS_A_SAVEGAME")

\* readXML('modDesc.xml') returned false
ParseFailed ==
    \E i \in 1..Len(answers) :
        answers[i].kind = "readXML" /\ answers[i].answer.kind = "false"

\* what a parse error leaves of the flags: the parse error is raised, the
\* two version flags are false and the piracy flag is as the file walk left
\* it
ParseErrorFlags ==
    /\ ObjGet(flag_broken, "NOT_MOD_MODDESC_PARSE_ERROR")
    /\ ~ObjGet(flag_broken, "NOT_MOD_MODDESC_VERSION_OLD_OR_MISSING")
    /\ ~ObjGet(flag_broken, "MOD_ERROR_NO_MOD_VERSION")
    /\ ObjGet(flag_problem, "INFO_MIGHT_BE_PIRACY")
         <=> (FilesOfType(S_l64) \cup FilesOfType(S_dat) # {})

\* C24 (as claimed): after readXML has returned false the parse error is
\* raised, the version and piracy checks are not evaluated, and every field
\* of the descriptor record, in the run and in the report, has its default
\* value.
C24_ParseErrorLeavesDefaults ==
    ParseFailed =>
        /\ ParseErrorFlags
        /\ modDesc = modDesc_init
        /\ pc = "Assembled" => Report.modDesc = modDesc_init

\* C24 (amended): after readXML has returned false the parse error is
\* raised, the version and piracy checks are not evaluated, and every field
\* of the descriptor record other than the script-file count has its
\* default value, in the run and in the report; the script-file count is
\* the number of lua files the file walk classified.
C24_ParseErrorLeavesExtractedDefaults ==
    ParseFailed =>
        LET asWalked == [modDesc_init EXCEPT
                            !.scriptFiles = Cardinality(FilesOfType(S_lua))]
        IN  /\ ParseErrorFlags
            /\ modDesc = asWalked
            /\ pc = "Assembled" =>
                /\ Report.modDesc = asWalked
                /\ Includes(Report.issues, "NOT_MOD_MODDESC_PARSE_ERROR")

\* a report after a parse error of the descriptor of an artifact that holds
\* a lua file
C24_Witness ==
    /\ pc = "Assembled"
    /\ ParseFailed
    /\ Report.modDesc.scriptFiles = 1
    /\ Includes(Report.issues, "NOT_MOD_MODDESC_PARSE_ERROR")
    /\ Includes(Report.issues, "MOD_ERROR_NO_MOD_ICON")

\* the trees readXML('modDesc.xml') has returned in this run
ExtractedTrees ==
    { answers[i].answer.tree :
        i \in { j \in 1..Len(answers) : /\ answers[j].kind = "readXML"
                                        /\ answers[j].answer.kind = "tree" } }

\* the icon fields of a descriptor record agree with a DDS list and an
\* issue list
IconConsistent(md, imageDDS, noIcon) ==
    /\ md.iconFileName # <<>> => Includes(imageDDS, md.iconFileName[1])
    /\ md.iconImageCache # <<>> => (md.iconFileName # <<>> /\ ~noIcon)

\* C25: an icon file name that is set is a member of the DDS-image list, and
\* a decoded image comes with an icon file name and without
\* MOD_ERROR_NO_MOD_ICON, in every state and in the report; once descriptor
\* extraction has run on a tree whose resolved icon name is not in the
\* DDS-image list, the icon file name is unset and MOD_ERROR_NO_MOD_ICON is
\* true, up to and in the report.
C25_IconNameIsListedDDS ==
    /\ IconConsistent(modDesc, fileDetail.imageDDS,
                      ObjGet(flag_problem, "MOD_ERROR_NO_MOD_ICON"))
    /\ \A tree \in ExtractedTrees :
          ~Includes(fileDetail.imageDDS, parseModDesc_iconFileName(tree)) =>
              /\ modDesc.iconFileName = <<>>
              /\ ObjGet(flag_problem, "MOD_ERROR_NO_MOD_ICON")
    /\ pc = "Assembled" =>
          /\ IconConsistent(Report.modDesc, Report.fileDetail.imageDDS,
                            Includes(Report.issues, "MOD_ERROR_NO_MOD_ICON"))
          /\ \A tree \in ExtractedTrees :
                ~Includes(Report.fileDetail.imageDDS, parseModDesc_iconFileName(tree)) =>
                    /\ Report.modDesc.iconFileName = <<>>
                    /\ Includes(Report.issues, "MOD_ERROR_NO_MOD_ICON")

\* a report with a decoded image for icon.dds, declared as icon.png
C25_Witness ==
    /\ pc = "Assembled"
    /\ Report.modDesc.iconImageCache # <<>>
    /\ Report.modDesc.iconFileName = << <<"i","c","o","n",".","d","d","s">> >>
    /\ \E tree \in ExtractedTrees :
          tree.iconfilename.name = <<"i","c","o","n",".","p","n","g">>
    /\ ~Includes(Report.issues, "MOD_ERROR_NO_MOD_ICON")

\* the name validator accepts the artifact
NameValid ==
    doStep_validFileName(fileDetail.fullPath, fileDetail.shortName,
                         fileDetail.isFolder).valid

\* the run meets a fatal condition (invalid name, open() false, save-game
\* marker, no modDesc.xml) or the descriptor did not parse
FatalOrParseError ==
    \/ ~NameValid
    \/ artifact.opens = "fail"
    \/ artifact.opens = "ok" /\ artifact.hasSaveGame
    \/ artifact.opens = "ok" /\ ~artifact.hasModDesc
    \/ ParseFailed

\* localization has run
LocalizeRan == Includes(stages, "l10n")

\* C26: in a run that meets a fatal condition or a descriptor parse error
\* there is never a descriptor tree; once localization has run the title is
\* '--', the description is empty and PERF_L10N_NOT_SET is raised, and the
\* report has that title, that description and PERF_L10N_NOT_SET among its
\* issues.
C26_NoTreeNoLocalizedText ==
    FatalOrParseError =>
        /\ modDescParsed.kind # "tree"
        /\ LocalizeRan =>
            /\ l10n = << [title |-> "--", description |-> ""] >>
            /\ ObjGet(flag_info, "PERF_L10N_NOT_SET")
        /\ pc = "Assembled" =>
            /\ LocalizeRan
            /\ Report.l10n = << [title |-> "--", description |-> ""] >>
            /\ Includes(Report.issues, "PERF_L10N_NOT_SET")

\* a report of a run whose descriptor did not parse, on an artifact with a
\* valid name, a modDesc.xml and no save-game marker
C26_Witness ==
    /\ pc = "Assembled"
    /\ ParseFailed
    /\ NameValid
    /\ Report.l10n[1].title = "--"
    /\ Includes(Report.issues, "PERF_L10N_NOT_SET")
    /\ Includes(Report.issues, "NOT_MOD_MODDESC_PARSE_ERROR")

\* C13: the report of a second run on the same unmodified artifact, made
\* with a fresh instance, the same collaborator answers and the same locale,
\* has the issue set and the badge list of the report of the first run.
C13_SecondRunSameReport ==
    (run = 2 /\ pc = "Assembled") =>
        /\ answers = <<>>
        /\ Range(Report.issues) = Range(first[1].issues)
        /\ Report.badgeArray = first[1].badgeArray

\* a second run over one png file fewer than the quota, as the first: neither
\* report has PERF_PNG_TOO_MANY
C13_Witness ==
    /\ run = 2
    /\ pc = "Assembled"
    /\ Cardinality(FilesOfType(S_png)) = maxFilesType_init.png - 1
    /\ maxFilesType.png = 1
    /\ ~Includes(Report.issues, "PERF_PNG_TOO_MANY")
    /\ Report.issues = first[1].issues

====
